---------------------------- MODULE Spec2Model ----------------------------
(***************************************************************************)
(* A model of the URL-shortening service: the urls, visitors, qr_codes and *)
(* users collections of the document store, the request handlers that read *)
(* and write them, and the middleware chain in front of the handlers.      *)
(*                                                                         *)
(* A handler is an async function; the store is shared by all requests and *)
(* every store operation is atomic on its own.  A handler is therefore     *)
(* modelled as one action per store operation it awaits: the action does   *)
(* the operation and everything the handler computes up to its next await. *)
(* Requests in flight are the records of the bag reqs; a finished request  *)
(* leaves reqs and its response becomes resp.                              *)
(*                                                                         *)
(* Option<T> is a sequence: <<>> is None and <<v>> is Some(v).             *)
(*                                                                         *)
(* Store operations answer, except where a handler discards or branches on *)
(* the failure itself (the background task of redirect_to_url and the      *)
(* deletes of delete_short_url): there the outcome is an input of the      *)
(* action.  A failed lookup that a handler turns into a 500 before doing   *)
(* anything else is not part of the model.                                 *)
(***************************************************************************)
EXTENDS Integers, Sequences, FiniteSets, Bags, TLC

VARIABLES
    now,        \* chrono::Utc::now().timestamp_millis()
    urls,       \* collection "urls": a set of ShortenedUrl documents
    visitors,   \* collection "visitors": a set of UrlVisitor documents
    qr_codes,   \* collection "qr_codes": a set of QrCode documents
    users,      \* collection "users": a set of User documents
    nextId,     \* the next ObjectId the driver hands out
    nreq,       \* number of requests received so far
    reqs,       \* bag of the handler invocations and background tasks in flight
    resp,       \* the response sent last
    served,     \* history: per short code, the redirects answered 302
    missed,     \* history: per short code, the click updates that changed no row
    removed,    \* history: the short codes some delete_one has removed a row of
    routed      \* history: the request routed last and how far it got

vars == <<now, urls, visitors, qr_codes, users, nextId, nreq, reqs, resp,
          served, missed, removed, routed>>

store == <<urls, visitors, qr_codes, users>>
history == <<served, missed, removed>>

---------------------------------------------------------------------------
(* Bounds and inputs *)

\* requests the model admits
MaxReqs == 3

\* instants the clock is sampled at (milliseconds): a first instant, one day
\* later and the millisecond after that
Instants == {0, 86400000, 86400001}

None == <<>>
Some(v) == <<v>>

\* request bodies' url: two well-formed URLs and a string that is no URL
GoodUrls == {"https://x.io", "https://y.io"}
BodyUrls == {"https://x.io", "not a url"}

\* short codes: what nanoid!(6) can return and what a caller can ask for
NanoIds == {"aaaaaa", "bbbbbb"}
CustomCodes == {None, Some(""), Some("aaaaaa")}
PathCodes == {"aaaaaa", "bbbbbb"}
ShortCodes == NanoIds \cup PathCodes

\* expires_in_days of a request body
ExpiresInDays == {None, Some(1)}

\* user ids carried by Claims
UserIds == {"u1", "u2"}
ClaimsOpt == {None} \cup {Some(u) : u \in UserIds}

\* realip_remote_addr() of a connection
RealIps == {None, Some("10.0.0.1")}

---------------------------------------------------------------------------
(* models/url.rs, utils/hash_ip.rs, models/url_visitor.rs *)

\* validator's url check of UrlRequest.url
validate(url) == url \in GoodUrls

ShortenedUrl_new(original_url, short_code, expires_in_days, user_id) ==
    [ original_url |-> original_url,
      short_code   |-> short_code,
      created_at   |-> Some(now),
      expires_at   |-> IF expires_in_days = None THEN None
                       ELSE Some(now + expires_in_days[1] * 24 * 60 * 60 * 1000),
      clicks       |-> 0,
      user_id      |-> user_id ]

is_expired(url) ==
    IF url.expires_at = None THEN FALSE ELSE now > url.expires_at[1]

hash_ip(ip) == "sha256(" \o ip \o "makemeshort_salt" \o ")"

UrlVisitor_new(short_code, visitor_hash, user_agent, referrer) ==
    [ short_code   |-> short_code,
      visitor_hash |-> visitor_hash,
      timestamp    |-> now,
      user_agent   |-> user_agent,
      referrer     |-> referrer ]

---------------------------------------------------------------------------
(* The document store *)

\* insert_one: the driver gives the document a fresh _id
insert_one(coll, document) == coll \cup {[document EXCEPT !.id = Some(nextId)]}

WithId(document) == [id |-> None] @@ document

\* documents of urls, qr_codes or visitors with this short_code
ByCode(coll, code) == {d \in coll : d.short_code = code}

\* a $set of the counter where the code has $inc
IncClicks_set(url) == [url EXCEPT !.clicks = 1]

\* $inc: {clicks: 1} on one document
IncClicks(url) == [url EXCEPT !.clicks = @ + 1]

\* the n-th response of the service
Respond(r, status, body) ==
    resp' = [n |-> resp.n + 1, h |-> r.h, req |-> r, status |-> status,
             body |-> body]

Start(r) == reqs' = reqs (+) SetToBag({r})
Finish(r) == reqs' = reqs (-) SetToBag({r})
Goto(r, next) == reqs' = (reqs (-) SetToBag({r})) (+) SetToBag({next})
InFlight == BagToSet(reqs)

Bump(f, code) == [f EXCEPT ![code] = @ + 1]

Init ==
    /\ now = 0
    /\ urls = {}
    /\ visitors = {}
    /\ qr_codes = {}
    /\ users = {}
    /\ nextId = 1
    /\ nreq = 0
    /\ reqs = EmptyBag
    /\ resp = [n |-> 0, h |-> "none", req |-> None, status |-> 0, body |-> None]
    /\ served = [c \in ShortCodes |-> 0]
    /\ missed = [c \in ShortCodes |-> 0]
    /\ removed = {}
    /\ routed = [n |-> 0, method |-> "", path |-> <<>>, authorization |-> None,
                 by |-> "", handler |-> ""]

Tick ==
    /\ \E t \in Instants : t > now /\ now' = t
    /\ UNCHANGED <<store, nextId, nreq, reqs, resp, history, routed>>

---------------------------------------------------------------------------
(* handlers/url_handlers.rs: create_short_url *)

\* the handler up to its first await: the body is validated, the user id is
\* read from the request extensions, and a custom code, if given and not
\* empty, is looked up; otherwise the short code is whatever nanoid!(6)
\* returns and the document is built for insert_one
create_short_url(claims, url, custom_code, expires_in_days) ==
    /\ nreq < MaxReqs
    /\ nreq' = nreq + 1
    /\ LET r == [ h |-> "create_short_url", pc |-> "find_one", url |-> url,
                  custom_code |-> custom_code,
                  expires_in_days |-> expires_in_days, user_id |-> claims ]
       IN  IF ~validate(url)
           THEN Respond(r, 400, None) /\ UNCHANGED reqs
           ELSE IF custom_code # None /\ custom_code[1] # ""
           THEN Start(r) /\ UNCHANGED resp
           ELSE /\ \E short_code \in NanoIds :
                     Start([r EXCEPT !.pc = "insert_one"] @@
                           [shortened_url |-> ShortenedUrl_new(url, short_code,
                                                  expires_in_days, claims)])
                /\ UNCHANGED resp
    /\ UNCHANGED <<now, store, nextId, history>>

\* a lookup whose filter names original_url where the code has short_code
existing_is_some_by_url(code) == {d \in urls : d.original_url = code} # {}

\* the lookup of the custom code: existing.is_some()
existing_is_some(code) == ByCode(urls, code) # {}

create_short_url_find_one(r) ==
    /\ r.h = "create_short_url" /\ r.pc = "find_one"
    /\ IF existing_is_some(r.custom_code[1])
       THEN Respond(r, 409, None) /\ Finish(r)
       ELSE /\ Goto(r, [r EXCEPT !.pc = "insert_one"] @@
                       [shortened_url |-> ShortenedUrl_new(r.url, r.custom_code[1],
                                              r.expires_in_days, r.user_id)])
            /\ UNCHANGED resp
    /\ UNCHANGED <<now, store, nextId, nreq, history>>

create_short_url_insert_one(r) ==
    /\ r.h = "create_short_url" /\ r.pc = "insert_one"
    /\ urls' = insert_one(urls, WithId(r.shortened_url))
    /\ nextId' = nextId + 1
    /\ Respond(r, 201, [ original_url |-> r.url,
                         short_code   |-> r.shortened_url.short_code,
                         expires_at   |-> r.shortened_url.expires_at,
                         user_id      |-> r.shortened_url.user_id ])
    /\ Finish(r)
    /\ UNCHANGED <<now, visitors, qr_codes, users, nreq, history>>

---------------------------------------------------------------------------
(* handlers/url_handlers.rs: redirect_to_url and its background task *)

\* find_one on short_code: any one of the matching documents, or none
find_one(coll, code) ==
    IF ByCode(coll, code) = {} THEN {None} ELSE {Some(d) : d \in ByCode(coll, code)}

\* a redirect that spawns its task before it looks at the expiry
redirect_to_url_counts_expired(code, realip) ==
    /\ nreq < MaxReqs
    /\ nreq' = nreq + 1
    /\ \E url_doc \in find_one(urls, code) :
         LET ip == IF realip = None THEN "unknown" ELSE realip[1]
             r  == [ h |-> "redirect_to_url",
                     pc |-> "update_one", code |-> code,
                     visitor_hash |-> hash_ip(ip) ]
         IN  IF url_doc = None
             THEN Respond(r, 404, None) /\ UNCHANGED <<reqs, served>>
             ELSE IF is_expired(url_doc[1])
             THEN Start(r) /\ Respond(r, 410, None) /\ UNCHANGED served
             ELSE /\ Start(r)
                  /\ Respond(r, 302, Some(url_doc[1].original_url))
                  /\ served' = Bump(served, code)
    /\ UNCHANGED <<now, store, nextId, missed, removed>>

redirect_to_url(code, realip) ==
    /\ nreq < MaxReqs
    /\ nreq' = nreq + 1
    /\ \E url_doc \in find_one(urls, code) :
         LET ip == IF realip = None THEN "unknown" ELSE realip[1]
             r  == [ h |-> "redirect_to_url",
                     pc |-> "update_one", code |-> code,
                     visitor_hash |-> hash_ip(ip) ]
         IN  IF url_doc = None
             THEN Respond(r, 404, None) /\ UNCHANGED <<reqs, served>>
             ELSE IF is_expired(url_doc[1])
             THEN Respond(r, 410, None) /\ UNCHANGED <<reqs, served>>
             ELSE /\ Start(r)
                  /\ Respond(r, 302, Some(url_doc[1].original_url))
                  /\ served' = Bump(served, code)
    /\ UNCHANGED <<now, store, nextId, missed, removed>>

\* a task that answers for its failed update_one and stops
task_update_one_checked(r, ok) ==
    /\ r.h = "redirect_to_url" /\ r.pc = "update_one"
    /\ IF ok /\ ByCode(urls, r.code) # {}
       THEN /\ \E url \in ByCode(urls, r.code) :
                 urls' = (urls \ {url}) \cup {IncClicks(url)}
            /\ Goto(r, [r EXCEPT !.pc = "find_one"])
            /\ UNCHANGED <<missed, resp>>
       ELSE /\ missed' = Bump(missed, r.code)
            /\ Respond(r, 500, None)
            /\ Finish(r)
            /\ UNCHANGED urls
    /\ UNCHANGED <<now, visitors, qr_codes, users, nextId, nreq,
                   served, removed>>

\* update_one {short_code} {$inc: {clicks: 1}}; its result is discarded
task_update_one(r, ok) ==
    /\ r.h = "redirect_to_url" /\ r.pc = "update_one"
    /\ IF ok /\ ByCode(urls, r.code) # {}
       THEN /\ \E url \in ByCode(urls, r.code) :
                 urls' = (urls \ {url}) \cup {IncClicks(url)}
            /\ UNCHANGED missed
       ELSE /\ missed' = Bump(missed, r.code)
            /\ UNCHANGED urls
    /\ Goto(r, [r EXCEPT !.pc = "find_one"])
    /\ UNCHANGED <<now, visitors, qr_codes, users, nextId, nreq, resp,
                   served, removed>>

\* Ok(None) = existing_visitor
existing_visitor_is_none(r, ok) ==
    ok /\ {v \in ByCode(visitors, r.code) : v.visitor_hash = r.visitor_hash} = {}

task_find_one(r, ok) ==
    /\ r.h = "redirect_to_url" /\ r.pc = "find_one"
    /\ IF existing_visitor_is_none(r, ok)
       THEN Goto(r, [r EXCEPT !.pc = "insert_one"] @@
                    [visitor |-> UrlVisitor_new(r.code, r.visitor_hash, None, None)])
       ELSE Finish(r)
    /\ UNCHANGED <<now, store, nextId, nreq, resp, history>>

task_insert_one(r, ok) ==
    /\ r.h = "redirect_to_url" /\ r.pc = "insert_one"
    /\ IF ok
       THEN /\ visitors' = insert_one(visitors, WithId(r.visitor))
            /\ nextId' = nextId + 1
       ELSE UNCHANGED <<visitors, nextId>>
    /\ Finish(r)
    /\ UNCHANGED <<now, urls, qr_codes, users, nreq, resp, history>>

---------------------------------------------------------------------------
(* handlers/url_handlers.rs: delete_short_url *)

\* a delete without the ownership check
not_owner_unchecked(url_to_delete, claims) == FALSE

\* url_to_delete.user_id.as_deref() != Some(&claims.user_id)
\* an owner check that lets any caller delete a URL that has no user_id
not_owner_of_owned(url_to_delete, claims) ==
    url_to_delete.user_id # None /\ url_to_delete.user_id # Some(claims[1])

not_owner(url_to_delete, claims) == url_to_delete.user_id # Some(claims[1])

\* a delete that removes the document it found before the owner check
delete_short_url_then_check(claims, code) ==
    /\ nreq < MaxReqs
    /\ nreq' = nreq + 1
    /\ \E url_doc \in find_one(urls, code) :
         LET r == [ h |-> "delete_short_url",
                    pc |-> "delete_one", code |-> code, claims |-> claims,
                    id |-> IF url_doc = None THEN None ELSE url_doc[1].id ]
         IN  IF claims = None
             THEN Respond(r, 500, None) /\ UNCHANGED <<reqs, urls>>
             ELSE IF url_doc = None
             THEN Respond(r, 404, None) /\ UNCHANGED <<reqs, urls>>
             ELSE IF not_owner(url_doc[1], claims)
             THEN /\ urls' = {u \in urls : u.id # url_doc[1].id}
                  /\ Respond(r, 403, None) /\ UNCHANGED reqs
             ELSE Start(r) /\ UNCHANGED <<resp, urls>>
    /\ UNCHANGED <<now, visitors, qr_codes, users, nextId, history>>

delete_short_url(claims, code) ==
    /\ nreq < MaxReqs
    /\ nreq' = nreq + 1
    /\ \E url_doc \in find_one(urls, code) :
         LET r == [ h |-> "delete_short_url",
                    pc |-> "delete_one", code |-> code, claims |-> claims,
                    id |-> IF url_doc = None THEN None ELSE url_doc[1].id ]
         IN  IF claims = None
             THEN Respond(r, 500, None) /\ UNCHANGED reqs
             ELSE IF url_doc = None
             THEN Respond(r, 404, None) /\ UNCHANGED reqs
             ELSE IF not_owner(url_doc[1], claims)
             THEN Respond(r, 403, None) /\ UNCHANGED reqs
             ELSE Start(r) /\ UNCHANGED resp
    /\ UNCHANGED <<now, store, nextId, history>>

delete_short_url_delete_one(r, ok) ==
    /\ r.h = "delete_short_url" /\ r.pc = "delete_one"
    /\ IF ok
       THEN /\ urls' = {u \in urls : u.id # r.id}
            /\ removed' = IF urls' # urls THEN removed \cup {r.code} ELSE removed
            /\ Goto(r, [r EXCEPT !.pc = "delete_many_qr"])
            /\ UNCHANGED resp
       ELSE /\ Respond(r, 500, None)
            /\ Finish(r)
            /\ UNCHANGED <<urls, removed>>
    /\ UNCHANGED <<now, visitors, qr_codes, users, nextId, nreq, served, missed>>

\* a delete that gives up with 500 when the deletion of the QR rows fails
delete_short_url_delete_many_qr_checked(r, ok) ==
    /\ r.h = "delete_short_url" /\ r.pc = "delete_many_qr"
    /\ IF ok
       THEN /\ qr_codes' = qr_codes \ ByCode(qr_codes, r.code)
            /\ Goto(r, [r EXCEPT !.pc = "delete_many_visitors"])
            /\ UNCHANGED resp
       ELSE /\ Respond(r, 500, None)
            /\ Finish(r)
            /\ UNCHANGED qr_codes
    /\ UNCHANGED <<now, urls, visitors, users, nextId, nreq, history>>

delete_short_url_delete_many_qr(r, ok) ==
    /\ r.h = "delete_short_url" /\ r.pc = "delete_many_qr"
    /\ qr_codes' = IF ok THEN qr_codes \ ByCode(qr_codes, r.code) ELSE qr_codes
    /\ Goto(r, [r EXCEPT !.pc = "delete_many_visitors"])
    /\ UNCHANGED <<now, urls, visitors, users, nextId, nreq, resp, history>>

delete_short_url_delete_many_visitors(r, ok) ==
    /\ r.h = "delete_short_url" /\ r.pc = "delete_many_visitors"
    /\ visitors' = IF ok THEN visitors \ ByCode(visitors, r.code) ELSE visitors
    /\ Respond(r, 204, None)
    /\ Finish(r)
    /\ UNCHANGED <<now, urls, qr_codes, users, nextId, nreq, history>>

---------------------------------------------------------------------------
(* The URL service: shortening, redirecting and deleting, with the clock *)

\* the handlers called with no middleware in front of them
Create ==
    /\ \E claims \in ClaimsOpt, url \in BodyUrls, custom_code \in CustomCodes,
          expires_in_days \in ExpiresInDays :
           create_short_url(claims, url, custom_code, expires_in_days)
    /\ UNCHANGED routed
CreateFind ==
    /\ \E r \in InFlight : create_short_url_find_one(r)
    /\ UNCHANGED routed
CreateInsert ==
    /\ \E r \in InFlight : create_short_url_insert_one(r)
    /\ UNCHANGED routed
Redirect ==
    /\ \E code \in PathCodes, realip \in RealIps : redirect_to_url(code, realip)
    /\ UNCHANGED routed
TaskUpdate ==
    /\ \E r \in InFlight, ok \in BOOLEAN : task_update_one(r, ok)
    /\ UNCHANGED routed
TaskFind ==
    /\ \E r \in InFlight, ok \in BOOLEAN : task_find_one(r, ok)
    /\ UNCHANGED routed
TaskInsert ==
    /\ \E r \in InFlight, ok \in BOOLEAN : task_insert_one(r, ok)
    /\ UNCHANGED routed
Delete ==
    /\ \E claims \in ClaimsOpt, code \in PathCodes : delete_short_url(claims, code)
    /\ UNCHANGED routed
DeleteOne ==
    /\ \E r \in InFlight, ok \in BOOLEAN : delete_short_url_delete_one(r, ok)
    /\ UNCHANGED routed
DeleteManyQr ==
    /\ \E r \in InFlight, ok \in BOOLEAN : delete_short_url_delete_many_qr(r, ok)
    /\ UNCHANGED routed
DeleteManyVisitors ==
    /\ \E r \in InFlight, ok \in BOOLEAN :
           delete_short_url_delete_many_visitors(r, ok)
    /\ UNCHANGED routed

NextUrl ==
    \/ Tick
    \/ Create
    \/ CreateFind
    \/ CreateInsert
    \/ Redirect
    \/ TaskUpdate
    \/ TaskFind
    \/ TaskInsert
    \/ Delete
    \/ DeleteOne
    \/ DeleteManyQr
    \/ DeleteManyVisitors

SpecUrl == Init /\ [][NextUrl]_vars

\* the same service when every caller asks for a custom code
CreateCustom ==
    /\ \E claims \in ClaimsOpt, url \in GoodUrls, expires_in_days \in ExpiresInDays :
           create_short_url(claims, url, Some("aaaaaa"), expires_in_days)
    /\ UNCHANGED routed

NextCustom ==
    \/ Tick
    \/ CreateCustom
    \/ CreateFind
    \/ CreateInsert
    \/ Redirect

SpecCustom == Init /\ [][NextCustom]_vars

\* custom codes, redirects and their background tasks
NextVisits ==
    \/ CreateCustom
    \/ CreateFind
    \/ CreateInsert
    \/ Redirect
    \/ TaskUpdate
    \/ TaskFind
    \/ TaskInsert

SpecVisits == Init /\ [][NextVisits]_vars

---------------------------------------------------------------------------
(* Claims about the URL service *)

\* r takes its step in this transition
Steps(r) == CopiesIn(r, reqs') < CopiesIn(r, reqs)
\* a response is sent in this transition
Responds == resp'.n = resp.n + 1

RECURSIVE SumClicks(_)
SumClicks(S) ==
    IF S = {} THEN 0
    ELSE LET u == CHOOSE u \in S : TRUE IN u.clicks + SumClicks(S \ {u})

\* background tasks of redirects of code that have not yet run their update_one
Pending(code) ==
    LET S == {r \in InFlight : r.h = "redirect_to_url" /\ r.pc = "update_one"
                               /\ r.code = code}
        RECURSIVE Copies(_)
        Copies(T) == IF T = {} THEN 0
                     ELSE LET r == CHOOSE r \in T : TRUE
                          IN  CopiesIn(r, reqs) + Copies(T \ {r})
    IN  Copies(S)

\* C1: whenever redirect_to_url answers a request for a short code, then for
\* every stored URL with that code: if the URL has no expires_at or the time
\* is not after it, the answer is 302 with Location the URL's original_url,
\* and if the time is after expires_at the answer is 410.
C1_RedirectFollowsStoredUrl ==
    [][ (Responds /\ resp'.h = "redirect_to_url") =>
        \A u \in ByCode(urls, resp'.req.code) :
            IF u.expires_at = None \/ now <= u.expires_at[1]
            THEN resp'.status = 302 /\ resp'.body = Some(u.original_url)
            ELSE resp'.status = 410 ]_vars

\* C2: no two stored ShortenedUrl documents have the same short_code.
C2_UniqueShortCode ==
    \A u1 \in urls, u2 \in urls : u1.short_code = u2.short_code => u1 = u2

\* C3: when create_short_url looks up a non-empty custom code and a URL with
\* that short code is stored, the request is answered 409 and no collection
\* changes.
C3_ConflictRejected ==
    [][ \A r \in InFlight :
          ( /\ r.h = "create_short_url" /\ r.pc = "find_one"
            /\ Steps(r)
            /\ ByCode(urls, r.custom_code[1]) # {} )
          => /\ Responds /\ resp'.req = r /\ resp'.status = 409
             /\ UNCHANGED store ]_vars

\* a 409 was sent to a caller other than the one who stored the URL
C3_Witness ==
    /\ resp.h = "create_short_url" /\ resp.status = 409
    /\ \E u \in urls : /\ u.short_code = resp.req.custom_code[1]
                       /\ u.user_id # None
                       /\ resp.req.user_id # None
                       /\ u.user_id # resp.req.user_id

\* C4: there is at most one UrlVisitor document per (short_code, visitor_hash).
C4_OneVisitorRow ==
    \A v1 \in visitors, v2 \in visitors :
        (v1.short_code = v2.short_code /\ v1.visitor_hash = v2.visitor_hash)
        => v1 = v2

\* C5: for every short code no URL of which has been deleted, the clicks of
\* the stored URLs with that code add up to the number of redirects answered
\* 302 for it, less those whose background task has not yet run its update
\* and those whose update failed or found no URL: every update that succeeds
\* adds exactly one click and none is lost.
C5_NoLostClick ==
    \A code \in ShortCodes :
        code \notin removed =>
            SumClicks(ByCode(urls, code)) + Pending(code) + missed[code]
                = served[code]

\* two redirects of one code were answered 302 and both clicks are counted
C5_Witness ==
    \E code \in ShortCodes :
        /\ code \notin removed
        /\ served[code] = 2 /\ missed[code] = 0 /\ Pending(code) = 0
        /\ SumClicks(ByCode(urls, code)) = 2

---------------------------------------------------------------------------
(* handlers/qr_handlers.rs: the QR service.  regenerate_qr awaits the lookup
   of the URL, then (unless forced) the lookup of the cached row, then
   find_one_and_update; generate_direct_qr awaits the lookup of a direct row
   of the URL and then update_one or insert_one.  What runs between two
   awaits, the reading of the clock included, belongs to the step of the
   earlier one. *)

\* the default of the HOST environment variable
HOST == "http://localhost:8080"
\* first segments of the UUIDs Uuid::new_v4() may return
Uuids == {"1a2b3c4d", "9f8e7d6c"}
\* the codes regenerate_qr is asked for, one of them shaped like a direct id
QrCodes == {"aaaaaa", "direct-1a2b3c4d"}
UrlTypes == {None, Some("original")}
Forces == {None, Some(FALSE), Some(TRUE)}
Sizes == {None, Some(300)}

\* Option::unwrap_or
unwrap_or(opt, default) == IF opt = None THEN default ELSE opt[1]

\* the regular expression ^direct-
StartsWith(str, prefix) ==
    Len(str) >= Len(prefix) /\ SubSeq(str, 1, Len(prefix)) = prefix
is_direct(short_code) == StartsWith(short_code, "direct-")

\* QrCodeGenerator::new(data).render().min_dimensions(d, d).build(): the SVG
\* is a function of the encoded bytes and of the dimensions
render(data, dimensions) ==
    "<svg min=" \o ToString(dimensions) \o " qr=" \o data \o "/>"

QrCode_new(short_code, original_url, svg_content, target_type, user_id) ==
    [ short_code |-> short_code, original_url |-> original_url,
      svg_content |-> svg_content, generated_at |-> now,
      target_type |-> target_type, user_id |-> user_id ]

\* the rows the filter {short_code, target_type} matches
Cached(code, target_type) ==
    {q \in ByCode(qr_codes, code) : q.target_type = target_type}

\* the rows the filter {original_url, short_code: ^direct-, target_type:
\* "original"} matches
DirectOf(url) ==
    {q \in qr_codes : /\ q.original_url = url /\ is_direct(q.short_code)
                      /\ q.target_type = "original"}

target_url(target_type, original_url, code) ==
    IF target_type = "original" THEN original_url ELSE HOST \o "/r/" \o code

\* what the handler computes once it has decided to render: the SVG and the
\* $set document of find_one_and_update
Rendered(r) ==
    [ svg_output   |-> render(target_url(r.target_type, r.original_url, r.code), 200),
      generated_at |-> now ]

\* the handler up to and including the lookup of the URL
regenerate_qr(code, force, url_type) ==
    /\ nreq < MaxReqs
    /\ nreq' = nreq + 1
    /\ LET r == [ h |-> "regenerate_qr", pc |-> "find_one", code |-> code,
                  force |-> unwrap_or(force, FALSE),
                  target_type |-> IF url_type = Some("original")
                                  THEN "original" ELSE "shortened" ]
       IN  \E url_doc \in find_one(urls, code) :
             IF url_doc = None
             THEN Respond(r, 404, None) /\ UNCHANGED reqs
             ELSE IF is_expired(url_doc[1])
             THEN Respond(r, 410, None) /\ UNCHANGED reqs
             ELSE LET q == r @@ [original_url |-> url_doc[1].original_url]
                  IN  /\ IF ~q.force
                         THEN Start(q)
                         ELSE Start([q EXCEPT !.pc = "find_one_and_update"]
                                    @@ Rendered(q))
                      /\ UNCHANGED resp
    /\ UNCHANGED <<now, store, nextId, history>>

\* the body of the answer re-rendered from the row found
cached_svg_rendered(qr) == render(qr.original_url, 200)

\* the body of the answer when a cached row is found: qr.svg_content
cached_svg(qr) == qr.svg_content

\* the lookup of the cached row of a call that is not forced
regenerate_qr_find_one(r) ==
    /\ r.h = "regenerate_qr" /\ r.pc = "find_one"
    /\ \E existing_qr \in find_one(Cached(r.code, r.target_type), r.code) :
         IF existing_qr # None
         THEN Respond(r, 200, Some(cached_svg(existing_qr[1]))) /\ Finish(r)
         ELSE /\ Goto(r, [r EXCEPT !.pc = "find_one_and_update"] @@ Rendered(r))
              /\ UNCHANGED resp
    /\ UNCHANGED <<now, store, nextId, nreq, history>>

\* find_one_and_update as an insert_one of a new row
find_one_and_update_inserts(r) ==
    { insert_one(qr_codes,
                 WithId([ short_code |-> r.code, original_url |-> r.original_url,
                          svg_content |-> r.svg_output,
                          generated_at |-> r.generated_at,
                          target_type |-> r.target_type, user_id |-> None ])) }

\* find_one_and_update with $set and no upsert option: one matching row, if
\* there is any, gets the new SVG and time
find_one_and_update(r) ==
    IF Cached(r.code, r.target_type) = {}
    THEN {qr_codes}
    ELSE { (qr_codes \ {q}) \cup
           {[q EXCEPT !.svg_content = r.svg_output,
                      !.generated_at = r.generated_at]} :
           q \in Cached(r.code, r.target_type) }

regenerate_qr_find_one_and_update(r) ==
    /\ r.h = "regenerate_qr" /\ r.pc = "find_one_and_update"
    /\ qr_codes' \in find_one_and_update(r)
    /\ Respond(r, 200, Some(r.svg_output))
    /\ Finish(r)
    /\ UNCHANGED <<now, urls, visitors, users, nextId, nreq, history>>

\* the handler up to and including the lookup of a direct row of the URL
generate_direct_qr(claims, url, size, force_regenerate) ==
    /\ nreq < MaxReqs
    /\ nreq' = nreq + 1
    /\ LET r == [ h |-> "generate_direct_qr", pc |-> "find_one", url |-> url,
                  size |-> size, force_regenerate |-> force_regenerate,
                  user_id |-> claims ]
       IN  IF ~validate(url)
           THEN Respond(r, 400, None) /\ UNCHANGED reqs
           ELSE \E existing_qr \in
                    IF DirectOf(url) = {} THEN {None}
                    ELSE {Some(q) : q \in DirectOf(url)} :
                  IF existing_qr # None /\ ~unwrap_or(force_regenerate, FALSE)
                  THEN /\ Respond(r, 200, Some(existing_qr[1].svg_content))
                       /\ UNCHANGED reqs
                  ELSE \E uuid \in Uuids :
                         LET dimensions == unwrap_or(size, 200)
                             svg_output == render(url, dimensions)
                             unique_id  == "direct-" \o uuid
                             qr_model   == QrCode_new(unique_id, url, svg_output,
                                                      "original", claims)
                         IN  /\ Start([r EXCEPT !.pc =
                                          IF existing_qr # None
                                          THEN "update_one" ELSE "insert_one"]
                                      @@ [ svg_output |-> svg_output,
                                           generated_at |-> now,
                                           qr_model |-> qr_model ])
                             /\ UNCHANGED resp
    /\ UNCHANGED <<now, store, nextId, history>>

\* an update_one that stores the new model as one more row
generate_direct_qr_update_one_inserts(r) ==
    /\ r.h = "generate_direct_qr" /\ r.pc = "update_one"
    /\ qr_codes' = insert_one(qr_codes, WithId(r.qr_model))
    /\ nextId' = nextId + 1
    /\ Respond(r, 200, Some(r.svg_output))
    /\ Finish(r)
    /\ UNCHANGED <<now, urls, visitors, users, nreq, history>>

generate_direct_qr_update_one(r) ==
    /\ r.h = "generate_direct_qr" /\ r.pc = "update_one"
    /\ IF DirectOf(r.url) = {}
       THEN UNCHANGED qr_codes
       ELSE \E q \in DirectOf(r.url) :
              qr_codes' = (qr_codes \ {q}) \cup
                          {[q EXCEPT !.svg_content = r.svg_output,
                                     !.generated_at = r.generated_at]}
    /\ Respond(r, 200, Some(r.svg_output))
    /\ Finish(r)
    /\ UNCHANGED <<now, urls, visitors, users, nextId, nreq, history>>

generate_direct_qr_insert_one(r) ==
    /\ r.h = "generate_direct_qr" /\ r.pc = "insert_one"
    /\ qr_codes' = insert_one(qr_codes, WithId(r.qr_model))
    /\ nextId' = nextId + 1
    /\ Respond(r, 200, Some(r.svg_output))
    /\ Finish(r)
    /\ UNCHANGED <<now, urls, visitors, users, nreq, history>>

\* the URLs the QR service is asked about are stored under custom codes
CreateForQr ==
    /\ \E custom_code \in QrCodes, expires_in_days \in ExpiresInDays :
           create_short_url(Some("u1"), "https://x.io", Some(custom_code),
                            expires_in_days)
    /\ UNCHANGED routed
Regenerate ==
    /\ \E code \in QrCodes, force \in Forces, url_type \in UrlTypes :
           regenerate_qr(code, force, url_type)
    /\ UNCHANGED routed
RegenerateFind ==
    /\ \E r \in InFlight : regenerate_qr_find_one(r)
    /\ UNCHANGED routed
RegenerateUpdate ==
    /\ \E r \in InFlight : regenerate_qr_find_one_and_update(r)
    /\ UNCHANGED routed
Direct ==
    /\ \E claims \in {None, Some("u1")}, url \in {"https://y.io", "not a url"},
          size \in Sizes, force_regenerate \in {None, Some(TRUE)} :
           generate_direct_qr(claims, url, size, force_regenerate)
    /\ UNCHANGED routed
DirectUpdate ==
    /\ \E r \in InFlight : generate_direct_qr_update_one(r)
    /\ UNCHANGED routed
DirectInsert ==
    /\ \E r \in InFlight : generate_direct_qr_insert_one(r)
    /\ UNCHANGED routed
DeleteForQr ==
    /\ \E code \in QrCodes : delete_short_url(Some("u1"), code)
    /\ UNCHANGED routed

NextQr ==
    \/ Tick
    \/ CreateForQr
    \/ CreateFind
    \/ CreateInsert
    \/ Regenerate
    \/ RegenerateFind
    \/ RegenerateUpdate
    \/ Direct
    \/ DirectUpdate
    \/ DirectInsert
    \/ DeleteForQr
    \/ DeleteOne
    \/ DeleteManyQr
    \/ DeleteManyVisitors

SpecQr == Init /\ [][NextQr]_vars

---------------------------------------------------------------------------
(* Claims about the QR service *)

\* C6: when a regenerate_qr call with force absent or false looks up the
\* cached row of its (short_code, target_type) and there is one, it answers
\* 200 with the svg_content of a row of that pair and qr_codes is unchanged.
C6_CachedSvgReturned ==
    [][ \A r \in InFlight :
          ( /\ r.h = "regenerate_qr" /\ r.pc = "find_one"
            /\ Steps(r)
            /\ Cached(r.code, r.target_type) # {} )
          => /\ Responds /\ resp'.req = r /\ resp'.status = 200
             /\ \E q \in Cached(r.code, r.target_type) :
                    resp'.body = Some(q.svg_content)
             /\ UNCHANGED qr_codes ]_vars

\* a call that was not forced was answered with the SVG of a stored row
C6_Witness ==
    /\ resp.h = "regenerate_qr" /\ resp.status = 200
    /\ resp.req.pc = "find_one" /\ ~resp.req.force
    /\ \E q \in Cached(resp.req.code, resp.req.target_type) :
           resp.body = Some(q.svg_content)

\* C7: when regenerate_qr has rendered a new SVG and answers 200, qr_codes
\* then holds a row of its (short_code, target_type) whose svg_content is
\* the SVG answered and whose generated_at is the time the call rendered it.
C7_RenderedSvgStored ==
    [][ \A r \in InFlight :
          ( /\ r.h = "regenerate_qr" /\ r.pc = "find_one_and_update"
            /\ Steps(r) )
          => /\ Responds /\ resp'.status = 200
             /\ resp'.body = Some(r.svg_output)
             /\ \E q \in qr_codes' :
                  /\ q.short_code = r.code /\ q.target_type = r.target_type
                  /\ q.svg_content = r.svg_output
                  /\ q.generated_at = r.generated_at ]_vars

---------------------------------------------------------------------------
(* Deleting a URL that has rows in all three collections.  The store holds
   what earlier requests left in it: a URL that user u1 stored under a custom
   code, a QR row that generate_direct_qr stored under the same id, and the
   visitor row of a redirect. *)

StoredCode == "direct-1a2b3c4d"
StoredUrl ==
    [ShortenedUrl_new("https://x.io", StoredCode, None, Some("u1")) @@ [id |-> Some(1)]
        EXCEPT !.clicks = 1]
StoredQr ==
    QrCode_new(StoredCode, "https://y.io", render("https://y.io", 200),
               "original", Some("u1")) @@ [id |-> Some(2)]
StoredVisitor ==
    UrlVisitor_new(StoredCode, hash_ip("10.0.0.2"), None, None) @@ [id |-> Some(3)]

\* the state around the stored URL
AroundStored ==
    /\ now = 0
    /\ visitors = {StoredVisitor}
    /\ qr_codes = {StoredQr}
    /\ users = {}
    /\ nextId = 4
    /\ nreq = 0
    /\ reqs = EmptyBag
    /\ resp = [n |-> 0, h |-> "none", req |-> None, status |-> 0, body |-> None]
    /\ served = [c \in ShortCodes \cup {StoredCode} |-> IF c = StoredCode THEN 1 ELSE 0]
    /\ missed = [c \in ShortCodes \cup {StoredCode} |-> 0]
    /\ removed = {}
    /\ routed = [n |-> 0, method |-> "", path |-> <<>>, authorization |-> None,
                 by |-> "", handler |-> ""]

InitStored == AroundStored /\ urls = {StoredUrl}

RedirectStored ==
    /\ redirect_to_url(StoredCode, Some("10.0.0.1"))
    /\ UNCHANGED routed
DeleteStored ==
    /\ \E claims \in ClaimsOpt, code \in {StoredCode, "bbbbbb"} :
           delete_short_url(claims, code)
    /\ UNCHANGED routed

NextDelete ==
    \/ RedirectStored
    \/ TaskUpdate
    \/ TaskFind
    \/ TaskInsert
    \/ DeleteStored
    \/ DeleteOne
    \/ DeleteManyQr
    \/ DeleteManyVisitors

SpecDelete == InitStored /\ [][NextDelete]_vars

\* the same when no operation of a delete fails
DeleteOneOk ==
    /\ \E r \in InFlight : delete_short_url_delete_one(r, TRUE)
    /\ UNCHANGED routed
DeleteManyQrOk ==
    /\ \E r \in InFlight : delete_short_url_delete_many_qr(r, TRUE)
    /\ UNCHANGED routed
DeleteManyVisitorsOk ==
    /\ \E r \in InFlight : delete_short_url_delete_many_visitors(r, TRUE)
    /\ UNCHANGED routed

NextCascade ==
    \/ RedirectStored
    \/ TaskUpdate
    \/ TaskFind
    \/ TaskInsert
    \/ DeleteStored
    \/ DeleteOneOk
    \/ DeleteManyQrOk
    \/ DeleteManyVisitorsOk

SpecCascade == InitStored /\ [][NextCascade]_vars

---------------------------------------------------------------------------
(* handlers/auth_handlers.rs and handlers/user_handlers.rs: the users
   collection.  The environment variables SUPERUSER_USERNAME and
   SUPERUSER_PASSWORD are set. *)

Roles == {"UrlCreator", "UrlViewer", "UrlManager", "QrCreator", "QrViewer",
          "QrManager", "AnalyticsViewer", "AnalyticsManager", "UserViewer",
          "UserManager", "SystemAdmin", "SuperUser"}
SUPERUSER_USERNAME == "admin"
SUPERUSER_PASSWORD == "secret"
Usernames == {"admin", "bob"}
Passwords == {"secret", "wrong"}

\* bcrypt: hash salts the password, verify recomputes the hash with the salt
\* of the stored hash
Salts == {"s1"}
hash(password, salt) == "$2b$" \o salt \o "$" \o password
verify(password, password_hash) == \E salt \in Salts : password_hash = hash(password, salt)

\* ObjectId::to_hex and ObjectId::parse_str
ObjectIds == 1 .. (MaxReqs + 1)
to_hex(object_id) == ToString(object_id)
parse_str(user_id) ==
    IF \E o \in ObjectIds : to_hex(o) = user_id
    THEN Some(CHOOSE o \in ObjectIds : to_hex(o) = user_id)
    ELSE None

User_new(username, email, full_name, password_hash, roles) ==
    [ username |-> username, email |-> email, full_name |-> full_name,
      password_hash |-> password_hash, roles |-> roles, created_at |-> now,
      updated_at |-> now, last_login |-> None, is_active |-> TRUE ]

ByUsername(username) == {u \in users : u.username = username}
ById(object_id) == {u \in users : u.id = Some(object_id)}

\* utils/jwt.rs: the claims of the token.  create_token reads the clock
\* twice, for expiration and then for issued_at: now is the first reading
\* and now' the second
create_token(username, user_id) ==
    [ sub |-> username, exp |-> (now \div 1000) + 10 * 24 * 60 * 60,
      iat |-> now' \div 1000, user_id |-> user_id ]

\* the clock at a later reading in the same step
LaterReading == now' \in {t \in Instants : t >= now}

\* login without the check of is_active
login_active_unchecked(username, password) ==
    /\ nreq < MaxReqs
    /\ nreq' = nreq + 1
    /\ LET r == [ h |-> "login", pc |-> "update_one", username |-> username,
                  password |-> password ]
       IN  IF ByUsername(username) = {}
           THEN Respond(r, 401, None) /\ UNCHANGED <<now, reqs>>
           ELSE \E user \in ByUsername(username) :
                  IF ~verify(password, user.password_hash)
                  THEN Respond(r, 401, None) /\ UNCHANGED <<now, reqs>>
                  ELSE /\ LaterReading
                       /\ Start(r @@ [ user_id |-> to_hex(user.id[1]),
                                       token |-> create_token(user.username,
                                                              to_hex(user.id[1])),
                                       last_login |-> now' ])
                       /\ UNCHANGED resp
    /\ UNCHANGED <<store, nextId, history>>

\* login up to and including the lookup of the user
login(username, password) ==
    /\ nreq < MaxReqs
    /\ nreq' = nreq + 1
    /\ LET r == [ h |-> "login", pc |-> "update_one", username |-> username,
                  password |-> password ]
       IN  IF ByUsername(username) = {}
           THEN Respond(r, 401, None) /\ UNCHANGED <<now, reqs>>
           ELSE \E user \in ByUsername(username) :
                  IF ~user.is_active \/ ~verify(password, user.password_hash)
                  THEN Respond(r, 401, None) /\ UNCHANGED <<now, reqs>>
                  ELSE /\ LaterReading
                       /\ Start(r @@ [ user_id |-> to_hex(user.id[1]),
                                       token |-> create_token(user.username,
                                                              to_hex(user.id[1])),
                                       last_login |-> now' ])
                       /\ UNCHANGED resp
    /\ UNCHANGED <<store, nextId, history>>

login_update_one(r) ==
    /\ r.h = "login" /\ r.pc = "update_one"
    /\ IF ByUsername(r.username) = {}
       THEN UNCHANGED users
       ELSE \E u \in ByUsername(r.username) :
              users' = (users \ {u}) \cup
                       {[u EXCEPT !.last_login = Some(r.last_login)]}
    /\ Respond(r, 200, Some(r.token))
    /\ Finish(r)
    /\ UNCHANGED <<now, urls, visitors, qr_codes, nextId, nreq, history>>

\* str::to_lowercase on the values the variable takes here
to_lowercase(str) ==
    CASE str = "TRUE" -> "true"
      [] str = "True" -> "true"
      [] str = "False" -> "false"
      [] OTHER -> str

\* the variable as the environment gives it: unset, or set to a string
EnvValues == {None, Some("true"), Some("True"), Some("TRUE"), Some("False"),
              Some("1"), Some("")}

\* public signup with the variable unset taken as "true"
allow_signup_open(ALLOW_PUBLIC_SIGNUP) ==
    to_lowercase(unwrap_or(ALLOW_PUBLIC_SIGNUP, "true")) = "true"

\* std::env::var("ALLOW_PUBLIC_SIGNUP").unwrap_or_else(|_| "false")
\*    .to_lowercase() == "true"
allow_signup(ALLOW_PUBLIC_SIGNUP) ==
    to_lowercase(unwrap_or(ALLOW_PUBLIC_SIGNUP, "false")) = "true"

\* signup up to and including the lookup of the username.  ALLOW_PUBLIC_SIGNUP
\* is read from the environment at every request; the new user gets the
\* "default permissions" of User::new, none
signup(ALLOW_PUBLIC_SIGNUP, username, password) ==
    /\ nreq < MaxReqs
    /\ nreq' = nreq + 1
    /\ LET r == [ h |-> "signup", pc |-> "insert_one", username |-> username,
                  ALLOW_PUBLIC_SIGNUP |-> ALLOW_PUBLIC_SIGNUP ]
       IN  IF ~allow_signup(ALLOW_PUBLIC_SIGNUP)
           THEN Respond(r, 403, None) /\ UNCHANGED reqs
           ELSE IF ByUsername(username) # {}
           THEN Respond(r, 400, None) /\ UNCHANGED reqs
           ELSE /\ \E salt \in Salts :
                     Start(r @@ [ new_user |->
                        User_new(username, None, None, hash(password, salt), {}) ])
                /\ UNCHANGED resp
    /\ UNCHANGED <<now, store, nextId, history>>

signup_insert_one(r) ==
    /\ r.h = "signup" /\ r.pc = "insert_one"
    /\ users' = insert_one(users, WithId(r.new_user))
    /\ nextId' = nextId + 1
    /\ Goto(r, [ h |-> "signup", pc |-> "find_one", username |-> r.username,
                 id |-> nextId ])
    /\ UNCHANGED <<now, urls, visitors, qr_codes, nreq, resp, history>>

\* the inserted user is read back and the token made
signup_find_one(r) ==
    /\ r.h = "signup" /\ r.pc = "find_one"
    /\ IF ById(r.id) = {}
       THEN Respond(r, 500, None) /\ UNCHANGED now
       ELSE /\ LaterReading
            /\ Respond(r @@ [user_id |-> to_hex(r.id)], 201,
                       Some(create_token(r.username, to_hex(r.id))))
    /\ Finish(r)
    /\ UNCHANGED <<store, nextId, nreq, history>>

\* create_superuser up to and including count_documents; the superuser is
\* created "with all roles"
create_superuser ==
    /\ nreq < MaxReqs
    /\ nreq' = nreq + 1
    /\ LET r == [ h |-> "create_superuser", pc |-> "insert_one" ]
       IN  IF Cardinality(users) > 0
           THEN Respond(r, 400, None) /\ UNCHANGED reqs
           ELSE /\ \E salt \in Salts :
                     Start(r @@ [ superuser |->
                        User_new(SUPERUSER_USERNAME, Some("admin@example.com"),
                                 Some("Super User"),
                                 hash(SUPERUSER_PASSWORD, salt), {"SuperUser"}) ])
                /\ UNCHANGED resp
    /\ UNCHANGED <<now, store, nextId, history>>

create_superuser_insert_one(r) ==
    /\ r.h = "create_superuser" /\ r.pc = "insert_one"
    /\ users' = insert_one(users, WithId(r.superuser))
    /\ nextId' = nextId + 1
    /\ Respond(r, 201, Some(r.superuser.username))
    /\ Finish(r)
    /\ UNCHANGED <<now, urls, visitors, qr_codes, nreq, history>>

\* create_user up to and including the lookup of the username
create_user(username, password, roles) ==
    /\ nreq < MaxReqs
    /\ nreq' = nreq + 1
    /\ LET r == [ h |-> "create_user", pc |-> "insert_one", username |-> username ]
       IN  IF ByUsername(username) # {}
           THEN Respond(r, 400, None) /\ UNCHANGED reqs
           ELSE /\ \E salt \in Salts :
                     Start(r @@ [ new_user |->
                        User_new(username, None, None, hash(password, salt), roles) ])
                /\ UNCHANGED resp
    /\ UNCHANGED <<now, store, nextId, history>>

create_user_insert_one(r) ==
    /\ r.h = "create_user" /\ r.pc = "insert_one"
    /\ users' = insert_one(users, WithId(r.new_user))
    /\ nextId' = nextId + 1
    /\ Goto(r, [ h |-> "create_user", pc |-> "find_one", id |-> nextId ])
    /\ UNCHANGED <<now, urls, visitors, qr_codes, nreq, resp, history>>

create_user_find_one(r) ==
    /\ r.h = "create_user" /\ r.pc = "find_one"
    /\ IF ById(r.id) = {}
       THEN Respond(r, 500, None)
       ELSE \E inserted_user \in ById(r.id) :
              Respond(r, 201, Some(inserted_user.username))
    /\ Finish(r)
    /\ UNCHANGED <<now, store, nextId, nreq, history>>

\* edit_user up to and including the lookup of the user; the request gives
\* username and is_active or leaves them out, and leaves the other fields out
edit_user(user_id, username, is_active) ==
    /\ nreq < MaxReqs
    /\ nreq' = nreq + 1
    /\ LET r == [ h |-> "edit_user", pc |-> "update_one", user_id |-> user_id ]
           object_id == parse_str(user_id)
       IN  IF object_id = None
           THEN Respond(r, 400, None) /\ UNCHANGED reqs
           ELSE IF ById(object_id[1]) = {}
           THEN Respond(r, 404, None) /\ UNCHANGED reqs
           ELSE /\ Start(r @@ [ id |-> object_id[1], updated_at |-> now,
                                req |-> [ username |-> username,
                                                is_active |-> is_active ] ])
                /\ UNCHANGED resp
    /\ UNCHANGED <<now, store, nextId, history>>

edit_user_update_one(r) ==
    /\ r.h = "edit_user" /\ r.pc = "update_one"
    /\ users' = {IF u.id = Some(r.id)
                 THEN [u EXCEPT !.updated_at = r.updated_at,
                                !.username = unwrap_or(r.req.username, @),
                                !.is_active = unwrap_or(r.req.is_active, @)]
                 ELSE u : u \in users}
    /\ Goto(r, [r EXCEPT !.pc = "find_one"])
    /\ UNCHANGED <<now, urls, visitors, qr_codes, nextId, nreq, resp, history>>

edit_user_find_one(r) ==
    /\ r.h = "edit_user" /\ r.pc = "find_one"
    /\ IF ById(r.id) = {}
       THEN Respond(r, 500, None)
       ELSE \E updated_user \in ById(r.id) :
              Respond(r, 200, Some(updated_user.username))
    /\ Finish(r)
    /\ UNCHANGED <<now, store, nextId, nreq, history>>

\* delete_user up to and including the lookup of the user
delete_user(user_id) ==
    /\ nreq < MaxReqs
    /\ nreq' = nreq + 1
    /\ LET r == [ h |-> "delete_user", pc |-> "delete_one", user_id |-> user_id ]
           object_id == parse_str(user_id)
       IN  IF object_id = None
           THEN Respond(r, 400, None) /\ UNCHANGED reqs
           ELSE IF ById(object_id[1]) = {}
           THEN Respond(r, 404, None) /\ UNCHANGED reqs
           ELSE Start(r @@ [ id |-> object_id[1] ]) /\ UNCHANGED resp
    /\ UNCHANGED <<now, store, nextId, history>>

delete_user_delete_one(r) ==
    /\ r.h = "delete_user" /\ r.pc = "delete_one"
    /\ users' = {u \in users : u.id # Some(r.id)}
    /\ Respond(r, 204, None)
    /\ Finish(r)
    /\ UNCHANGED <<now, urls, visitors, qr_codes, nextId, nreq, history>>

\* the handlers that only read the store (get_all_urls, get_qr_code_direct,
\* get_url_analytics, get_user_urls, get_all_qr_codes, get_user_qr_codes,
\* get_all_users, get_user, health_check) answer with one of their statuses
ReadStatuses == {200, 400, 404, 410, 500}
read_only(handler) ==
    /\ nreq < MaxReqs
    /\ nreq' = nreq + 1
    /\ \E status \in ReadStatuses :
         Respond([h |-> handler, pc |-> "find"], status, None)
    /\ UNCHANGED <<now, store, nextId, reqs, history>>

---------------------------------------------------------------------------
(* routes/routes.rs and middlewares: how a request gets to a handler.  The
   requests carry no Origin header. *)

\* a path is the sequence of its segments, "/api/users/" the sequence
\* <<"api", "users", "">>; req.path() is the string
RECURSIVE path_str(_)
path_str(segments) ==
    IF segments = <<>> THEN ""
    ELSE "/" \o Head(segments) \o path_str(Tail(segments))

is_param(segment) == StartsWith(segment, "{")

\* a resource pattern matches a whole path, a {name} segment any segment that
\* is not empty
MatchResource(pattern, segments) ==
    /\ Len(pattern) = Len(segments)
    /\ \A i \in 1 .. Len(pattern) :
         IF is_param(pattern[i]) THEN segments[i] # ""
         ELSE pattern[i] = segments[i]

\* a scope matches the paths under its prefix
MatchScope(prefix, segments) ==
    /\ Len(prefix) <= Len(segments)
    /\ SubSeq(segments, 1, Len(prefix)) = prefix

\* req.match_info().get(name)
match_info(pattern, segments, name) ==
    LET at == {i \in 1 .. Len(pattern) : pattern[i] = "{" \o name \o "}"}
    IN  IF at = {} \/ Len(pattern) # Len(segments) THEN None
        ELSE Some(segments[CHOOSE i \in at : TRUE])

NoGate == [kind |-> "none", roles |-> {}, param_name |-> ""]
RequireRoles(roles) == [kind |-> "RequireRoles", roles |-> roles, param_name |-> ""]
ResourceOwnership(param_name) ==
    [kind |-> "ResourceOwnership", roles |-> {}, param_name |-> param_name]

route(method, path, handler) == [method |-> method, path |-> path, handler |-> handler]
service(scope, path, jwt, gate, routes) ==
    [scope |-> scope, path |-> path, jwt |-> jwt, gate |-> gate, routes |-> routes]

\* init_routes: the services in the order they are registered, those of the
\* /api scope with the scope's JwtAuth and with the path of the scope in
\* front, and the scope itself after them for the paths none of them matches
init_routes ==
    << service(FALSE, <<"r", "{code}">>, FALSE, NoGate,
               {route("GET", <<"r", "{code}">>, "redirect_to_url")}),
       service(TRUE, <<"api", "auth">>, FALSE, NoGate,
               {route("POST", <<"api", "auth", "login">>, "login"),
                route("POST", <<"api", "auth", "init">>, "create_superuser")}),
       service(FALSE, <<"api", "shorten">>, TRUE, NoGate,
               {route("POST", <<"api", "shorten">>, "create_short_url")}),
       service(FALSE, <<"api", "urls">>, TRUE,
               RequireRoles({"UrlViewer", "UrlManager"}),
               {route("GET", <<"api", "urls">>, "get_all_urls")}),
       service(FALSE, <<"api", "health", "check">>, TRUE, NoGate,
               {route("GET", <<"api", "health", "check">>, "health_check")}),
       service(FALSE, <<"api", "qr", "{code}", "regenerate">>, TRUE,
               RequireRoles({"QrManager"}),
               {route("GET", <<"api", "qr", "{code}", "regenerate">>, "regenerate_qr")}),
       service(FALSE, <<"api", "qr", "{code}", "info">>, TRUE,
               RequireRoles({"QrViewer", "QrManager"}),
               {route("GET", <<"api", "qr", "{code}", "info">>, "get_qr_code_direct")}),
       service(FALSE, <<"api", "analytics", "{code}">>, TRUE,
               RequireRoles({"AnalyticsViewer", "AnalyticsManager"}),
               {route("GET", <<"api", "analytics", "{code}">>, "get_url_analytics")}),
       service(FALSE, <<"api", "qr">>, TRUE, RequireRoles({"QrCreator", "QrManager"}),
               {route("POST", <<"api", "qr">>, "generate_direct_qr"),
                route("GET", <<"api", "qr">>, "get_all_qr_codes")}),
       service(TRUE, <<"api", "users">>, TRUE, RequireRoles({"SuperUser"}),
               {route("GET", <<"api", "users", "">>, "get_all_users"),
                route("POST", <<"api", "users", "">>, "create_user"),
                route("GET", <<"api", "users", "{user_id}">>, "get_user"),
                route("PUT", <<"api", "users", "{user_id}">>, "edit_user"),
                route("DELETE", <<"api", "users", "{user_id}">>, "delete_user")}),
       service(TRUE, <<"api">>, TRUE, NoGate, {}) >>

\* the routes of the final version that routes.rs does not register: the
\* delete of a URL behind JwtAuth, and the per-user listings behind JwtAuth
\* and ResourceOwnership
final_routes ==
    << service(FALSE, <<"api", "urls", "{code}">>, TRUE, NoGate,
               {route("DELETE", <<"api", "urls", "{code}">>, "delete_short_url")}),
       service(FALSE, <<"api", "users", "{user_id}", "urls">>, TRUE,
               ResourceOwnership("user_id"),
               {route("GET", <<"api", "users", "{user_id}", "urls">>, "get_user_urls")}),
       service(FALSE, <<"api", "users", "{user_id}", "qr">>, TRUE,
               ResourceOwnership("user_id"),
               {route("GET", <<"api", "users", "{user_id}", "qr">>, "get_user_qr_codes")}) >>

services == final_routes \o init_routes

\* the tokens signed with JWT_SECRET and their claims, by token string
Issued ==
    [ t \in {"jwt.root", "jwt.viewer", "jwt.old"} |->
        CASE t = "jwt.root" ->
               [ sub |-> "admin", exp |-> 864000, iat |-> 0, user_id |-> "u1",
                 roles |-> {"SuperUser"} ]
          [] t = "jwt.viewer" ->
               [ sub |-> "bob", exp |-> 864000, iat |-> 0, user_id |-> "u2",
                 roles |-> {"UrlViewer"} ]
          [] t = "jwt.old" ->
               [ sub |-> "admin", exp |-> 80000, iat |-> 0, user_id |-> "u1",
                 roles |-> {"SuperUser"} ] ]
Tokens == DOMAIN Issued \cup {"jwt.forged"}

\* decode without the check of exp
validate_token_signature(token) ==
    IF token \in DOMAIN Issued THEN Some(Issued[token]) ELSE None

\* decode with Validation::default(): the signature and exp are checked
validate_token(token) ==
    IF token \in DOMAIN Issued /\ ~(Issued[token].exp < now \div 1000)
    THEN Some(Issued[token]) ELSE None

\* what the gates leave in the request extensions
NoExtensions == [sub |-> None, roles |-> None]

\* a JwtAuth that also asks the users collection for an active user named
\* by the subject of the token
JwtAuth_call_active(path, authorization) ==
    IF \/ StartsWith(path, "/api/auth/login")
       \/ StartsWith(path, "/r/")
       \/ StartsWith(path, "/api/health/check")
    THEN Some(NoExtensions)
    ELSE IF authorization = None THEN None
    ELSE IF authorization[1] = None THEN None
    ELSE LET auth_header_str == authorization[1][1]
         IN  IF ~StartsWith(auth_header_str, "Bearer ") THEN None
             ELSE LET token  == SubSeq(auth_header_str, 8, Len(auth_header_str))
                      claims == validate_token(token)
                  IN  IF claims = None THEN None
                      ELSE IF \A u \in ByUsername(claims[1].sub) : ~u.is_active
                      THEN None
                      ELSE Some([ sub |-> Some(claims[1].sub),
                                  roles |-> Some(claims[1].roles) ])

\* JwtAuthMiddleware::call: None when the request is rejected, else the
\* extensions of the request handed on.  The Authorization header is absent,
\* or not a string (to_str fails), or a string.
JwtAuth_call(path, authorization) ==
    IF \/ StartsWith(path, "/api/auth/login")
       \/ StartsWith(path, "/r/")
       \/ StartsWith(path, "/api/health/check")
    THEN Some(NoExtensions)
    ELSE IF authorization = None THEN None
    ELSE IF authorization[1] = None THEN None
    ELSE LET auth_header_str == authorization[1][1]
         IN  IF ~StartsWith(auth_header_str, "Bearer ") THEN None
             ELSE LET token  == SubSeq(auth_header_str, 8, Len(auth_header_str))
                      claims == validate_token(token)
                  IN  IF claims = None THEN None
                      ELSE Some([ sub |-> Some(claims[1].sub),
                                  roles |-> Some(claims[1].roles) ])

\* models/role.rs and models/user.rs: a Vec<Role> is the set of its elements
\* (the code asks only iter().any and contains of it)
Role_is_superuser(role) == role = "SuperUser"
is_superuser(roles) == \E role \in roles : Role_is_superuser(role)
has_any_role(user_roles, roles) ==
    is_superuser(user_roles) \/ \E role \in user_roles : role \in roles

\* a role gate that asks for a required role of every caller
RequireRoles_call_contains(required_roles, extensions) ==
    /\ extensions.roles # None
    /\ \E role \in extensions.roles[1] : role \in required_roles

\* RequireRolesMiddleware::call: does the request go on
RequireRoles_call(required_roles, extensions) ==
    /\ extensions.roles # None
    /\ \E role \in extensions.roles[1] :
         role = "SuperUser" \/ role \in required_roles

\* ResourceOwnershipMiddleware::call: does the request go on; claims is the
\* Claims value of the extensions
ResourceOwnership_call(param_name, claims, pattern, path) ==
    /\ claims # None
    /\ LET resource_owner_id == match_info(pattern, path, param_name)
       IN  resource_owner_id = None \/ claims[1] = resource_owner_id[1]

\* the Claims value the handlers and ResourceOwnership find in the
\* extensions.  JwtAuthMiddleware::call inserts the subject and the roles
\* only; the handlers read the Claims of utils/jwt.rs.  Both are kept: a
\* request that passed JwtAuth with a token carries either no Claims or the
\* Claims of its token.
ClaimsOf(authorization) ==
    IF \/ authorization = None
       \/ authorization[1] = None
       \/ ~StartsWith(authorization[1][1], "Bearer ")
    THEN {None}
    ELSE LET token == SubSeq(authorization[1][1], 8, Len(authorization[1][1]))
         IN  IF validate_token(token) = None THEN {None}
             ELSE {None, Some(validate_token(token)[1].user_id)}

\* the request lines the gates are shown: one for every route, and some that
\* no route takes
request_line(method, path) == [method |-> method, path |-> path]
RequestLines ==
    { request_line("GET", <<"r", "aaaaaa">>),
      request_line("POST", <<"api", "auth", "login">>),
      request_line("POST", <<"api", "auth", "init">>),
      request_line("POST", <<"api", "shorten">>),
      request_line("GET", <<"api", "urls">>),
      request_line("DELETE", <<"api", "urls", "aaaaaa">>),
      request_line("GET", <<"api", "health", "check">>),
      request_line("GET", <<"api", "qr", "aaaaaa", "regenerate">>),
      request_line("GET", <<"api", "qr", "aaaaaa", "info">>),
      request_line("GET", <<"api", "analytics", "aaaaaa">>),
      request_line("POST", <<"api", "qr">>),
      request_line("GET", <<"api", "qr">>),
      request_line("GET", <<"api", "users", "">>),
      request_line("POST", <<"api", "users", "">>),
      request_line("GET", <<"api", "users", "1">>),
      request_line("PUT", <<"api", "users", "1">>),
      request_line("DELETE", <<"api", "users", "1">>),
      request_line("DELETE", <<"api", "users", "zz">>),
      request_line("GET", <<"api", "users", "u1", "urls">>),
      request_line("GET", <<"api", "users", "u1", "qr">>),
      request_line("POST", <<"api", "auth", "signup">>),
      request_line("GET", <<"api", "auth", "login">>),
      request_line("GET", <<"api", "health", "checkup">>),
      request_line("GET", <<"api", "shorten">>),
      request_line("POST", <<"r", "aaaaaa">>),
      request_line("GET", <<"nowhere">>) }
Authorizations ==
    {None, Some(None), Some(Some("Basic YWRtaW46c2VjcmV0"))}
        \cup {Some(Some("Bearer " \o t)) : t \in Tokens}

\* the handler of the method and path among the routes of a service, "" if
\* there is none
HandlerOf(routes, method, path) ==
    IF \E r \in routes : r.method = method /\ MatchResource(r.path, path)
    THEN (CHOOSE r \in routes :
              r.method = method /\ MatchResource(r.path, path)).handler
    ELSE ""

\* the router: the first service whose path matches, 0 if there is none
Resolve(path) ==
    IF \E i \in 1 .. Len(services) :
          IF services[i].scope THEN MatchScope(services[i].path, path)
          ELSE MatchResource(services[i].path, path)
    THEN CHOOSE i \in 1 .. Len(services) :
           /\ IF services[i].scope THEN MatchScope(services[i].path, path)
              ELSE MatchResource(services[i].path, path)
           /\ \A j \in 1 .. (i - 1) :
                ~(IF services[j].scope THEN MatchScope(services[j].path, path)
                  ELSE MatchResource(services[j].path, path))
    ELSE 0

Rejected(by, status) == [by |-> by, handler |-> "", status |-> status]

\* what follows the JwtAuth of a service: the gate of the resource, then the
\* choice of the route; a resource answers the methods it has no route for
\* with 405
AfterJwtAuth(svc, extensions, method, path, claims) ==
    IF /\ svc.gate.kind = "RequireRoles"
       /\ ~RequireRoles_call(svc.gate.roles, extensions)
    THEN Rejected("RequireRoles", 401)
    ELSE IF /\ svc.gate.kind = "ResourceOwnership"
            /\ ~ResourceOwnership_call(svc.gate.param_name, claims, svc.path, path)
    THEN Rejected("ResourceOwnership", 403)
    ELSE IF HandlerOf(svc.routes, method, path) = ""
    THEN IF \E r \in svc.routes : MatchResource(r.path, path)
         THEN Rejected("default_service", 405)
         ELSE Rejected("default_service", 404)
    ELSE [by |-> "handler", handler |-> HandlerOf(svc.routes, method, path),
          status |-> 0]

\* a request in a service: its JwtAuth first, if it has one
InService(svc, extensions, method, path, claims) ==
    IF extensions = None THEN Rejected("JwtAuth", 401)
    ELSE AfterJwtAuth(svc, extensions[1], method, path, claims)

\* where a request ends: at a gate with its status, at no route, or at a
\* handler
Dispatch(method, path, authorization, claims) ==
    IF Resolve(path) = 0 THEN Rejected("default_service", 404)
    ELSE InService(services[Resolve(path)],
                   IF services[Resolve(path)].jwt
                   THEN JwtAuth_call(path_str(path), authorization)
                   ELSE Some(NoExtensions),
                   method, path, claims)

\* requests the gates are shown
MaxGateReqs == 2

\* the handler a request has got to, with the inputs it extracts
Call(handler, path, claims) ==
    LET seg == path
    IN  CASE handler = "redirect_to_url" ->
               redirect_to_url(seg[2], Some("10.0.0.1"))
          [] handler = "login" ->
               \E password \in Passwords : login(SUPERUSER_USERNAME, password)
          [] handler = "create_superuser" -> create_superuser
          [] handler = "create_short_url" ->
               create_short_url(claims, "https://x.io", Some("aaaaaa"), None)
          [] handler = "regenerate_qr" -> regenerate_qr(seg[3], None, None)
          [] handler = "generate_direct_qr" ->
               \E force_regenerate \in {None, Some(TRUE)} :
                   generate_direct_qr(claims, "https://y.io", None, force_regenerate)
          [] handler = "create_user" -> create_user("bob", "secret", {"UrlViewer"})
          [] handler = "edit_user" -> edit_user(seg[3], None, Some(FALSE))
          [] handler = "delete_user" -> delete_user(seg[3])
          [] handler = "delete_short_url" -> delete_short_url(claims, seg[3])
          [] OTHER -> read_only(handler)

\* a request arrives: the gates in front of its service run and then, if
\* none of them rejects it and a route matches, its handler
Arrive(d, method, path, authorization, claims) ==
    /\ routed' = [ n |-> routed.n + 1, method |-> method, path |-> path,
                   authorization |-> authorization, by |-> d.by,
                   handler |-> d.handler ]
    /\ IF d.by = "handler"
       THEN Call(d.handler, path, claims)
       ELSE /\ nreq' = nreq + 1
            /\ Respond([ h |-> d.by, pc |-> "call", method |-> method,
                         path |-> path ], d.status, None)
            /\ UNCHANGED <<now, store, nextId, reqs, history>>

Request(method, path, authorization, claims) ==
    Arrive(Dispatch(method, path, authorization, claims),
           method, path, authorization, claims)

Gate ==
    /\ nreq < MaxGateReqs
    /\ \E line \in RequestLines, authorization \in Authorizations :
          \E claims \in ClaimsOf(authorization) :
              Request(line.method, line.path, authorization, claims)
LoginUpdate ==
    /\ \E r \in InFlight : login_update_one(r)
    /\ UNCHANGED routed
SuperuserInsert ==
    /\ \E r \in InFlight : create_superuser_insert_one(r)
    /\ UNCHANGED routed
UserInsert ==
    /\ \E r \in InFlight : create_user_insert_one(r)
    /\ UNCHANGED routed
UserFind ==
    /\ \E r \in InFlight : create_user_find_one(r)
    /\ UNCHANGED routed
EditUpdate ==
    /\ \E r \in InFlight : edit_user_update_one(r)
    /\ UNCHANGED routed
EditFind ==
    /\ \E r \in InFlight : edit_user_find_one(r)
    /\ UNCHANGED routed
UserDelete ==
    /\ \E r \in InFlight : delete_user_delete_one(r)
    /\ UNCHANGED routed

NextGate ==
    \/ Tick
    \/ Gate
    \/ CreateFind
    \/ CreateInsert
    \/ TaskUpdate
    \/ TaskFind
    \/ TaskInsert
    \/ RegenerateFind
    \/ RegenerateUpdate
    \/ DirectUpdate
    \/ DirectInsert
    \/ DeleteOne
    \/ DeleteManyQr
    \/ DeleteManyVisitors
    \/ LoginUpdate
    \/ SuperuserInsert
    \/ UserInsert
    \/ UserFind
    \/ EditUpdate
    \/ EditFind
    \/ UserDelete

SpecGate == Init /\ [][NextGate]_vars

---------------------------------------------------------------------------
(* The users collection: the handlers of auth_handlers.rs and
   user_handlers.rs called with no middleware in front of them *)

Login ==
    /\ \E username \in Usernames, password \in Passwords : login(username, password)
    /\ UNCHANGED routed
Superuser ==
    /\ create_superuser
    /\ UNCHANGED routed
Signup ==
    /\ \E ALLOW_PUBLIC_SIGNUP \in EnvValues :
           signup(ALLOW_PUBLIC_SIGNUP, "bob", "secret")
    /\ UNCHANGED routed
SignupInsert ==
    /\ \E r \in InFlight : signup_insert_one(r)
    /\ UNCHANGED routed
SignupFind ==
    /\ \E r \in InFlight : signup_find_one(r)
    /\ UNCHANGED routed
CreateUser ==
    /\ create_user("bob", "secret", {"UrlViewer"})
    /\ UNCHANGED routed
EditUser ==
    /\ \E user_id \in {"1", "zz"}, username \in {None, Some("bob")},
          is_active \in {None, Some(FALSE)} :
           edit_user(user_id, username, is_active)
    /\ UNCHANGED routed
DeleteUser ==
    /\ delete_user("1")
    /\ UNCHANGED routed

NextUsers ==
    \/ Tick
    \/ Login
    \/ LoginUpdate
    \/ Superuser
    \/ SuperuserInsert
    \/ Signup
    \/ SignupInsert
    \/ SignupFind
    \/ CreateUser
    \/ UserInsert
    \/ UserFind
    \/ EditUser
    \/ EditUpdate
    \/ EditFind
    \/ DeleteUser
    \/ UserDelete

SpecUsers == Init /\ [][NextUsers]_vars

---------------------------------------------------------------------------
(* The middlewares by themselves: a resource wrapped with RequireRoles or
   with ResourceOwnership, for any required roles, caller roles and path *)

\* what a request gets once the gates have decided
Answer(d, method, path, claims) ==
    IF d.by = "handler"
    THEN Call(d.handler, path, claims)
    ELSE /\ nreq' = nreq + 1
         /\ Respond([ h |-> d.by, pc |-> "call", method |-> method,
                      path |-> path ], d.status, None)
         /\ UNCHANGED <<now, store, nextId, reqs, history>>

\* a request to the service svc that got into it with these extensions;
\* request is what else is known of it
Wrapped(svc, request, extensions, d, path, claims) ==
    /\ routed' = request @@
                 [ n |-> routed.n + 1, service |-> svc, path |-> path,
                   extensions |-> extensions, claims |-> claims,
                   by |-> d.by, handler |-> d.handler ]
    /\ Answer(d, "GET", path, claims)

RoleSample == {"SuperUser", "UrlViewer", "QrManager"}
urls_resource(required_roles) ==
    service(FALSE, <<"api", "urls">>, TRUE, RequireRoles(required_roles),
            {route("GET", <<"api", "urls">>, "get_all_urls")})

\* a request of a caller with the roles user_roles, past JwtAuth, to a
\* resource that requires required_roles
RoleGateOf(svc, extensions) ==
    Wrapped(svc, [gate |-> "RequireRoles"], Some(extensions),
            AfterJwtAuth(svc, extensions, "GET", <<"api", "urls">>, None),
            <<"api", "urls">>, None)
RoleGate ==
    /\ nreq < MaxGateReqs
    /\ \E user_roles \in SUBSET RoleSample, required_roles \in SUBSET RoleSample :
          RoleGateOf(urls_resource(required_roles),
                     [sub |-> Some("bob"), roles |-> Some(user_roles)])

\* resources wrapped with ResourceOwnership("user_id"), with and without
\* the parameter in the path
owner_resource(pattern) ==
    service(FALSE, pattern, TRUE, ResourceOwnership("user_id"),
            {route("GET", pattern, "get_user_urls")})
OwnerLines ==
    { [pattern |-> <<"api", "users", "{user_id}", "urls">>,
       path |-> <<"api", "users", "u1", "urls">>],
      [pattern |-> <<"api", "users", "{user_id}", "urls">>,
       path |-> <<"api", "users", "u2", "urls">>],
      [pattern |-> <<"api", "users", "urls">>,
       path |-> <<"api", "users", "urls">>] }

\* a request to such a resource in the /api scope: JwtAuth, then the gate
OwnerGateOf(svc, authorization, extensions, path, claims) ==
    Wrapped(svc, [gate |-> "ResourceOwnership", authorization |-> authorization],
            extensions, InService(svc, extensions, "GET", path, claims),
            path, claims)
OwnerGate ==
    /\ nreq < MaxGateReqs
    /\ \E line \in OwnerLines, authorization \in Authorizations :
          \E claims \in ClaimsOf(authorization) :
              OwnerGateOf(owner_resource(line.pattern), authorization,
                          JwtAuth_call(path_str(line.path), authorization),
                          line.path, claims)

NextMiddleware ==
    \/ Tick
    \/ RoleGate
    \/ OwnerGate

SpecMiddleware == Init /\ [][NextMiddleware]_vars

---------------------------------------------------------------------------
(* Properties of the gates *)

\* the handlers of the routes that need no token
PublicHandlers == {"login", "create_superuser", "redirect_to_url", "health_check"}

\* the handler registered for the method and path, "" if there is none
RouteOf(method, path) ==
    IF Resolve(path) = 0 THEN ""
    ELSE HandlerOf(services[Resolve(path)].routes, method, path)

\* some route, of whatever method, has this path, and none of them is public
ProtectedPath(path) ==
    /\ \E i \in 1 .. Len(services) : \E r \in services[i].routes :
          MatchResource(r.path, path)
    /\ \A i \in 1 .. Len(services) : \A r \in services[i].routes :
          MatchResource(r.path, path) => r.handler \notin PublicHandlers

\* the Authorization header is "Bearer <token>" with a token that was issued
\* and has not expired
BearsValidToken(authorization) ==
    \E t \in DOMAIN Issued :
        /\ authorization = Some(Some("Bearer " \o t))
        /\ Issued[t].exp >= now \div 1000

\* a request has arrived on this step
Arrives == routed'.n = routed.n + 1

GateRejections == {"JwtAuth", "RequireRoles", "ResourceOwnership"}

\* C9: a request that is rejected by the JWT gate, the role gate, the
\* ownership gate, or by the owner check of delete_short_url (its answer 403),
\* leaves the users, urls, qr_codes and visitors collections as they were.
C9_RejectionLeavesStore ==
    [][ ( \/ Arrives /\ routed'.by \in GateRejections
          \/ Responds /\ resp'.h = "delete_short_url" /\ resp'.status = 403 )
        => UNCHANGED <<users, urls, qr_codes, visitors>> ]_vars

\* the owner check of delete_short_url has rejected the delete of a stored
\* URL that another user created, the request having passed the gates
C9_Witness ==
    /\ routed.by = "handler" /\ routed.handler = "delete_short_url"
    /\ resp.h = "delete_short_url" /\ resp.status = 403
    /\ \E u \in urls : u.short_code = resp.req.code /\ u.user_id # None

\* C10: a request without an Authorization header "Bearer <token>" of a valid,
\* unexpired token gets to a handler exactly when its route is login,
\* superuser init, the redirect /r/{code} or the health check; on every other
\* path that has a route it is answered 401 by JwtAuth, neither the role gate
\* nor a handler having run.
C10_OnlyPublicRoutesWithoutToken ==
    [][ (Arrives /\ ~BearsValidToken(routed'.authorization))
        => /\ (routed'.by = "handler")
                <=> (RouteOf(routed'.method, routed'.path) \in PublicHandlers)
           /\ routed'.by = "handler"
                => routed'.handler = RouteOf(routed'.method, routed'.path)
           /\ ProtectedPath(routed'.path)
                => /\ routed'.by = "JwtAuth"
                   /\ routed'.handler = ""
                   /\ resp'.n = resp.n + 1
                   /\ resp'.h = "JwtAuth" /\ resp'.status = 401
                   /\ UNCHANGED <<store, reqs>> ]_vars

\* a request with the token that has expired has been answered 401 by JwtAuth
\* on the path of a role-gated route
C10_Witness ==
    /\ routed.by = "JwtAuth"
    /\ routed.authorization = Some(Some("Bearer jwt.old"))
    /\ routed.path = <<"api", "urls">>
    /\ now = 86400000
    /\ resp.h = "JwtAuth" /\ resp.status = 401

\* C11: the role gate lets a request past JwtAuth through exactly when the
\* caller's roles contain SuperUser or share a role with the required roles,
\* which is the decision of User::has_any_role on the same two lists; a caller
\* without roles is rejected, and SuperUser passes an empty required list.
C11_RoleGateIsHasAnyRole ==
    [][ (Arrives /\ routed'.gate = "RequireRoles")
        => LET user_roles     == routed'.extensions[1].roles[1]
               required_roles == routed'.service.gate.roles
           IN  /\ (routed'.by = "handler")
                    <=> \/ "SuperUser" \in user_roles
                        \/ user_roles \cap required_roles # {}
               /\ (routed'.by = "handler")
                    <=> has_any_role(user_roles, required_roles)
               /\ routed'.by \in {"handler", "RequireRoles"}
               /\ user_roles = {} => routed'.by = "RequireRoles" ]_vars

\* a SuperUser has passed a role gate that requires no role at all, and the
\* handler behind it has answered
C11_Witness ==
    /\ routed.n > 0
    /\ routed.gate = "RequireRoles"
    /\ routed.extensions[1].roles[1] = {"SuperUser"}
    /\ routed.service.gate.roles = {}
    /\ routed.by = "handler"
    /\ resp.h = "get_all_urls"

\* C12: a request with a valid token whose roles do not satisfy the required
\* roles of its route is answered 403 Forbidden.
C12_InsufficientRoleForbidden ==
    [][ ( /\ Arrives
          /\ BearsValidToken(routed'.authorization)
          /\ routed'.by = "RequireRoles" )
        => resp'.status = 403 ]_vars

\* the user id in the token of an Authorization header "Bearer <token>"
TokenUserId(authorization) ==
    Issued[SubSeq(authorization[1][1], 8, Len(authorization[1][1]))].user_id

\* C13: a request that has passed JwtAuth gets through the ownership gate to
\* the handler exactly when the configured path parameter is absent or equals
\* the user id of the caller's token, and is answered 403 otherwise; a caller
\* asking for their own user_id gets through.
C13_OwnershipGateByTokenUser ==
    [][ ( /\ Arrives
          /\ routed'.gate = "ResourceOwnership"
          /\ routed'.extensions # None )
        => LET resource_owner_id ==
                   match_info(routed'.service.path, routed'.path, "user_id")
               forwards ==
                   \/ resource_owner_id = None
                   \/ resource_owner_id[1] = TokenUserId(routed'.authorization)
           IN  /\ (routed'.by = "handler") <=> forwards
               /\ ~forwards => /\ routed'.by = "ResourceOwnership"
                               /\ resp'.status = 403 ]_vars

---------------------------------------------------------------------------
(* Properties of delete_short_url *)

\* a URL row is removed in this transition
Removes(u) == u \in urls /\ \A v \in urls' : v.id # u.id

\* delete_short_url is entered in this transition by a caller with these
\* claims, for this code
DeleteEntered(claims, code) ==
    /\ nreq' = nreq + 1
    /\ \/ /\ Responds
          /\ resp'.h = "delete_short_url"
          /\ resp'.req.claims = claims /\ resp'.req.code = code
       \/ /\ ~Responds
          /\ \E r \in BagToSet(reqs') :
                /\ CopiesIn(r, reqs') > CopiesIn(r, reqs)
                /\ r.h = "delete_short_url" /\ r.pc = "delete_one"
                /\ r.claims = claims /\ r.code = code

\* C14: delete_short_url removes a URL only for the caller whose user id is
\* the user_id of the URL; the delete of another authenticated caller is
\* answered 403 and the delete of an unknown code 404, and both leave the
\* URL rows, the QR rows and the visitor rows as they were.
C14_OnlyOwnerDeletes ==
    [][ /\ \A u \in urls :
             Removes(u)
             => \E r \in InFlight :
                   /\ Steps(r) /\ r.h = "delete_short_url"
                   /\ r.claims # None /\ u.user_id = r.claims
                   /\ u.short_code = r.code
        /\ \A claims \in ClaimsOpt \ {None}, code \in {StoredCode, "bbbbbb"} :
             DeleteEntered(claims, code)
             => /\ ByCode(urls, code) = {}
                     => /\ Responds /\ resp'.status = 404
                        /\ UNCHANGED store
                /\ (ByCode(urls, code) # {}
                      /\ \A u \in ByCode(urls, code) : u.user_id # claims)
                     => /\ Responds /\ resp'.status = 403
                        /\ UNCHANGED store
                /\ Responds => resp'.status \in {403, 404} ]_vars

\* the delete of u2 for the URL of u1 has been answered 403, and the URL,
\* its QR row and its visitor row are still stored
C14_Witness ==
    /\ resp.h = "delete_short_url" /\ resp.status = 403
    /\ resp.req.claims = Some("u2") /\ resp.req.code = StoredCode
    /\ StoredQr \in qr_codes /\ StoredVisitor \in visitors
    /\ \E u \in urls : u.short_code = StoredCode /\ u.user_id = Some("u1")

\* C15: once the delete of the owner has been answered 204, every operation
\* of it having succeeded, neither a qr_codes row nor a visitors row with its
\* short code is stored, redirects of the code that were under way included.
C15_CascadeLeavesNoRows ==
    (resp.h = "delete_short_url" /\ resp.status = 204)
    => /\ ByCode(qr_codes, resp.req.code) = {}
       /\ ByCode(visitors, resp.req.code) = {}

\* C16: once the delete of the owner has removed the URL row it answers 204,
\* whether the deletions of the QR rows and of the visitor rows succeed or
\* fail; when the removal of the URL row fails it answers 500 and deletes
\* neither QR rows nor visitor rows.
C16_BestEffortCascade ==
    [][ \A r \in InFlight :
          (Steps(r) /\ r.h = "delete_short_url")
          => /\ r.pc = "delete_one"
                  => \/ /\ \E u \in urls : u.id = r.id /\ Removes(u)
                        /\ ~Responds
                        /\ [r EXCEPT !.pc = "delete_many_qr"] \in BagToSet(reqs')
                     \/ /\ Responds /\ resp'.status = 500 /\ resp'.req = r
                        /\ UNCHANGED store
                        /\ reqs' = reqs (-) SetToBag({r})
                     \/ /\ ~Responds /\ \A u \in urls : u.id # r.id
                        /\ UNCHANGED store
                        /\ [r EXCEPT !.pc = "delete_many_qr"] \in BagToSet(reqs')
             /\ r.pc = "delete_many_qr"
                  => /\ ~Responds
                     /\ [r EXCEPT !.pc = "delete_many_visitors"] \in BagToSet(reqs')
             /\ r.pc = "delete_many_visitors"
                  => /\ Responds /\ resp'.status = 204
                     /\ resp'.h = "delete_short_url" ]_vars

\* the delete of the owner has removed the URL and been answered 204 after
\* both of its deletions failed: the QR row and the visitor row are left
C16_Witness ==
    /\ resp.h = "delete_short_url" /\ resp.status = 204
    /\ resp.req.code = StoredCode
    /\ ByCode(urls, StoredCode) = {}
    /\ StoredQr \in qr_codes /\ StoredVisitor \in visitors

---------------------------------------------------------------------------
(* Properties of the users collection *)

\* the users create_superuser has inserted
Bootstrapped(coll) == {u \in coll : u.email = Some("admin@example.com")}

\* C17: create_superuser inserts a user only when the users collection is
\* empty, so that under any interleaving of init requests the bootstrap
\* creates at most one user.
C17_OneBootstrapUser ==
    [][ /\ Bootstrapped(users') \ Bootstrapped(users) # {} => users = {}
        /\ Cardinality(Bootstrapped(users')) <= 1 ]_vars

\* C18: in every state of the users collection no two users have the same
\* username.
C18_UniqueUsername ==
    \A u, v \in users : u.username = v.username => u.id = v.id

\* the users a login request with this username and password is let in as:
\* the active ones whose stored hash the password verifies against
LetIn(username, password) ==
    {u \in ByUsername(username) : u.is_active /\ verify(password, u.password_hash)}

\* the login request r passes the lookup in this transition
PassesLookup(r) == r.h = "login" /\ CopiesIn(r, reqs') > CopiesIn(r, reqs)

\* C19: a login is answered 401 or 200 and nothing else.  It is answered 401
\* at the lookup, when no user has the username or the user found is inactive
\* or the password does not verify against its hash; the 401 carries no token
\* and leaves the users collection, last_login included, as it was.  A login
\* passes the lookup only as an active user whose hash the password verifies
\* against, and only a login that passed the lookup is answered 200; the 200
\* carries the token and last_login of a stored user of that username is set.
C19_LoginOutcome ==
    [][ /\ \A r \in InFlight' : PassesLookup(r) => LetIn(r.username, r.password) # {}
        /\ (Responds /\ resp'.h = "login") =>
             \/ /\ resp'.status = 401
                /\ resp'.body = None
                /\ users' = users
                /\ reqs' = reqs
                /\ ByUsername(resp'.req.username) \
                     LetIn(resp'.req.username, resp'.req.password) # {}
                   \/ ByUsername(resp'.req.username) = {}
             \/ /\ resp'.status = 200
                /\ resp'.req \in InFlight
                /\ resp'.body = Some(resp'.req.token)
                /\ ByUsername(resp'.req.username) # {} =>
                     \E u \in ByUsername(resp'.req.username) :
                        users' = (users \ {u}) \cup
                          {[u EXCEPT !.last_login = Some(resp'.req.last_login)]}
      ]_vars

\* a login with the right password was answered 401 because the account is
\* inactive
C19_Witness ==
    /\ resp.h = "login" /\ resp.status = 401
    /\ \E u \in ByUsername(resp.req.username) :
          ~u.is_active /\ verify(resp.req.password, u.password_hash)

\* C20: every token made by create_token, in login and in signup, has the
\* username of the request as sub and the hexadecimal id of the user as
\* user_id, and its exp is its iat plus 864000.
C20_TokenOfUser ==
    /\ \A r \in InFlight : r.h = "login" =>
          /\ r.token.sub = r.username
          /\ r.token.user_id = r.user_id
          /\ r.token.exp = r.token.iat + 864000
    /\ (resp.h \in {"login", "signup"} /\ resp.body # None) =>
          /\ resp.body[1].sub = resp.req.username
          /\ resp.body[1].user_id = resp.req.user_id
          /\ resp.body[1].exp = resp.body[1].iat + 864000

---------------------------------------------------------------------------
(* Properties of redirect_to_url and its background task *)

\* r is a background task of a redirect taking one of its steps
TaskSteps(r) == r.h = "redirect_to_url" /\ Steps(r)

\* C21: a redirect answered 302 carries the original_url of a stored,
\* unexpired URL of its code and is answered in the step that spawns its
\* background task, with the task still to run; a redirect of a code whose
\* stored URL is unexpired is answered 302; and no step of a background
\* task, its store operation succeeding or failing, sends or changes a
\* response or takes another request out of flight.
C21_RedirectIgnoresTask ==
    [][ /\ (Responds /\ resp'.h = "redirect_to_url") =>
             /\ resp'.status = 302 =>
                  /\ \E u \in ByCode(urls, resp'.req.code) :
                        ~is_expired(u) /\ resp'.body = Some(u.original_url)
                  /\ resp'.req.pc = "update_one"
                  /\ CopiesIn(resp'.req, reqs') = CopiesIn(resp'.req, reqs) + 1
             /\ (\E u \in ByCode(urls, resp'.req.code) : ~is_expired(u)) =>
                  resp'.status = 302
        /\ \A r \in InFlight : TaskSteps(r) =>
             /\ resp' = resp
             /\ \A q \in InFlight \ {r} : CopiesIn(q, reqs') >= CopiesIn(q, reqs)
      ]_vars

\* the last response is a 302, its task failed at update_one and is over
C21_Witness ==
    /\ resp.h = "redirect_to_url" /\ resp.status = 302
    /\ missed[resp.req.code] > 0
    /\ InFlight = {}

---------------------------------------------------------------------------
(* Properties of signup *)

\* the variable is set to "true" in some mix of upper and lower case
SetToTrue(v) == v \in {Some("true"), Some("True"), Some("TRUE")}

\* C22: a signup read with ALLOW_PUBLIC_SIGNUP unset or set to anything
\* other than "true" in some case is answered 403 in its first step, with no
\* token, no user added and nothing left in flight; only a signup read with
\* the variable set to "true" gets past that step.
C22_SignupDisabled ==
    [][ /\ (Responds /\ resp'.h = "signup" /\ resp'.req.pc = "insert_one"
              /\ ~SetToTrue(resp'.req.ALLOW_PUBLIC_SIGNUP)) =>
             /\ resp'.status = 403
             /\ resp'.body = None
             /\ users' = users
             /\ reqs' = reqs
        /\ \A r \in InFlight' :
             (r.h = "signup" /\ r.pc = "insert_one"
                /\ CopiesIn(r, reqs') > CopiesIn(r, reqs)) =>
               SetToTrue(r.ALLOW_PUBLIC_SIGNUP)
      ]_vars

\* a signup was refused with the variable set to something that is not
\* "true"
C22_Witness ==
    /\ resp.h = "signup" /\ resp.status = 403
    /\ resp.req.ALLOW_PUBLIC_SIGNUP \in {Some("1"), Some("False")}

---------------------------------------------------------------------------
(* Properties of ownership *)

\* r is put in flight in this transition
Enters(r) == CopiesIn(r, reqs') > CopiesIn(r, reqs)

\* C23: a create_short_url that a caller with a valid token gets to builds
\* its URL with the user id of that token as user_id, and a delete_short_url
\* the same caller gets to, on a code whose stored URL has that user id,
\* passes the owner check and goes on to delete_one.
C23_CreatorOwns ==
    [][ (Arrives /\ routed'.by = "handler") =>
          /\ routed'.handler = "create_short_url" =>
               \A r \in InFlight' :
                  (r.h = "create_short_url" /\ Enters(r)) =>
                     r.user_id = Some(TokenUserId(routed'.authorization))
          /\ ( /\ routed'.handler = "delete_short_url"
               /\ ByCode(urls, routed'.path[3]) # {}
               /\ \A u \in ByCode(urls, routed'.path[3]) :
                     u.user_id = Some(TokenUserId(routed'.authorization)) ) =>
               \E r \in InFlight' :
                  r.h = "delete_short_url" /\ r.pc = "delete_one" /\ Enters(r)
      ]_vars

---------------------------------------------------------------------------
(* generate_direct_qr called by one client, one call after the other *)

\* a call is made when the one before it has been answered
DirectSeq ==
    /\ InFlight = {}
    /\ \E claims \in {None, Some("u1")}, url \in GoodUrls, size \in Sizes,
          force_regenerate \in Forces :
           generate_direct_qr(claims, url, size, force_regenerate)
    /\ UNCHANGED routed

NextDirect ==
    \/ Tick
    \/ DirectSeq
    \/ DirectUpdate
    \/ DirectInsert

SpecDirect == Init /\ [][NextDirect]_vars

---------------------------------------------------------------------------
(* Properties of generate_direct_qr *)

\* the request of generate_direct_qr that is answered or put in flight in
\* this transition, as a set
DirectCalled ==
    {r \in InFlight' : r.h = "generate_direct_qr" /\ Enters(r)}
      \cup (IF Responds /\ resp'.h = "generate_direct_qr"
                /\ resp'.req.pc = "find_one"
             THEN {resp'.req} ELSE {})

\* C24: when generate_direct_qr is called, one call after the other, for a
\* URL that has a direct row, no row is ever added for that URL: a call with
\* force_regenerate absent or false is answered at once with the svg_content
\* of the row and leaves qr_codes as it was, and a call with force_regenerate
\* true goes to update_one, which changes svg_content and generated_at of
\* that row and nothing else, its short_code and id included.
C24_DirectRowReused ==
    [][ /\ \A r \in DirectCalled : DirectOf(r.url) # {} =>
             /\ qr_codes' = qr_codes
             /\ IF unwrap_or(r.force_regenerate, FALSE)
                THEN r.pc = "update_one" /\ ~Responds
                ELSE /\ r.pc = "find_one" /\ Responds /\ reqs' = reqs
                     /\ resp'.status = 200
                     /\ \E q \in DirectOf(r.url) : resp'.body = Some(q.svg_content)
        /\ \A r \in InFlight :
             (r.h = "generate_direct_qr" /\ r.pc = "update_one" /\ Steps(r)) =>
               /\ resp'.body = Some(r.svg_output)
               /\ \E q \in DirectOf(r.url) :
                     qr_codes' = (qr_codes \ {q}) \cup
                        {[q EXCEPT !.svg_content = r.svg_output,
                                   !.generated_at = r.generated_at]}
        /\ \A url \in GoodUrls :
             DirectOf(url) # {} =>
               Cardinality({q \in qr_codes' : /\ q.original_url = url
                                               /\ is_direct(q.short_code)}) = 1
      ]_vars

\* a forced call has been answered after it overwrote the row of an earlier
\* call, which keeps the identifier it was given then
C24_Witness ==
    /\ resp.h = "generate_direct_qr" /\ resp.status = 200
    /\ resp.req.pc = "update_one"
    /\ \E q \in DirectOf(resp.req.url) :
          /\ q.svg_content = resp.req.svg_output
          /\ q.short_code # resp.req.qr_model.short_code
          /\ q.generated_at > 0
\* C25: every SVG generate_direct_qr answers with is the rendering of the
\* URL of the call at the dimensions of the call, its size or 200 when the
\* size is absent.
C25_RenderedAtRequestedSize ==
    (resp.h = "generate_direct_qr" /\ resp.status = 200) =>
        resp.body = Some(render(resp.req.url, unwrap_or(resp.req.size, 200)))

\* C26: in every state the qr_codes collection has at most one row of an
\* original_url with a direct- short_code and target_type original.
C26_OneDirectRowPerUrl ==
    \A url \in GoodUrls : Cardinality(DirectOf(url)) <= 1

---------------------------------------------------------------------------
(* A stored URL is redirected to, deleted and created again under its code,
   and no store operation fails *)

TaskUpdateOk ==
    /\ \E r \in InFlight : task_update_one(r, TRUE)
    /\ UNCHANGED routed
TaskFindOk ==
    /\ \E r \in InFlight : task_find_one(r, TRUE)
    /\ UNCHANGED routed
TaskInsertOk ==
    /\ \E r \in InFlight : task_insert_one(r, TRUE)
    /\ UNCHANGED routed
CreateStored ==
    /\ \E claims \in ClaimsOpt, expires_in_days \in ExpiresInDays :
           create_short_url(claims, "https://y.io", Some(StoredCode),
                            expires_in_days)
    /\ UNCHANGED routed

NextRecreate ==
    \/ Tick
    \/ RedirectStored
    \/ TaskUpdateOk
    \/ TaskFindOk
    \/ TaskInsertOk
    \/ DeleteStored
    \/ DeleteOneOk
    \/ DeleteManyQrOk
    \/ DeleteManyVisitorsOk
    \/ CreateStored
    \/ CreateFind
    \/ CreateInsert

SpecRecreate == InitStored /\ [][NextRecreate]_vars

\* C27: in every state every stored URL has at most as many visitor rows of
\* its short_code as its clicks, so the unique_clicks get_url_analytics
\* counts never exceeds the clicks it reports.
C27_UniqueClicksWithinClicks ==
    \A u \in urls : Cardinality(ByCode(visitors, u.short_code)) <= u.clicks

---------------------------------------------------------------------------
(* The gates in front of the handlers when the superuser is stored and is
   then deactivated or deleted *)

AdminUser ==
    [ username |-> SUPERUSER_USERNAME, email |-> Some("admin@example.com"),
      full_name |-> Some("Super User"),
      password_hash |-> hash(SUPERUSER_PASSWORD, "s1"), roles |-> {"SuperUser"},
      created_at |-> 0, updated_at |-> 0, last_login |-> None,
      is_active |-> TRUE, id |-> Some(1) ]

InitAdmin ==
    /\ now = 0
    /\ urls = {}
    /\ visitors = {}
    /\ qr_codes = {}
    /\ users = {AdminUser}
    /\ nextId = 2
    /\ nreq = 0
    /\ reqs = EmptyBag
    /\ resp = [n |-> 0, h |-> "none", req |-> None, status |-> 0, body |-> None]
    /\ served = [c \in ShortCodes |-> 0]
    /\ missed = [c \in ShortCodes |-> 0]
    /\ removed = {}
    /\ routed = [n |-> 0, method |-> "", path |-> <<>>, authorization |-> None,
                 by |-> "", handler |-> ""]

RevokeLines ==
    { request_line("PUT", <<"api", "users", "1">>),
      request_line("DELETE", <<"api", "users", "1">>),
      request_line("GET", <<"api", "users", "1">>),
      request_line("GET", <<"api", "urls">>),
      request_line("GET", <<"api", "qr">>) }

GateRevoke ==
    /\ nreq < MaxGateReqs
    /\ \E line \in RevokeLines, authorization \in Authorizations :
          \E claims \in ClaimsOf(authorization) :
              Request(line.method, line.path, authorization, claims)

NextRevoke ==
    \/ Tick
    \/ GateRevoke
    \/ EditUpdate
    \/ EditFind
    \/ UserDelete

SpecRevoke == InitAdmin /\ [][NextRevoke]_vars

\* the claims of the token of an Authorization header "Bearer <token>"
TokenClaims(authorization) ==
    Issued[SubSeq(authorization[1][1], 8, Len(authorization[1][1]))]

\* C28: a request on a path behind JwtAuth is let through by JwtAuth exactly
\* when its Authorization header is "Bearer <token>" of an issued token that
\* has not expired, whatever the users collection holds, and the role gate
\* behind it then decides by the roles of the token: a token issued to a
\* user who has since been deactivated or deleted is accepted as before.
C28_TokenOutlivesUser ==
    [][ (Arrives /\ ProtectedPath(routed'.path)) =>
          /\ (routed'.by # "JwtAuth") <=> BearsValidToken(routed'.authorization)
          /\ ( /\ BearsValidToken(routed'.authorization)
               /\ services[Resolve(routed'.path)].gate.kind = "RequireRoles" ) =>
               ( (routed'.by # "RequireRoles") <=>
                   has_any_role(TokenClaims(routed'.authorization).roles,
                                services[Resolve(routed'.path)].gate.roles) )
      ]_vars

\* a request with the token of the superuser has got to a handler when no
\* active user of that name is stored any more
C28_Witness ==
    /\ routed.by = "handler"
    /\ BearsValidToken(routed.authorization)
    /\ TokenClaims(routed.authorization).sub = SUPERUSER_USERNAME
    /\ \A u \in ByUsername(SUPERUSER_USERNAME) : ~u.is_active

---------------------------------------------------------------------------
(* Deleting a stored URL that has no user_id *)

\* the URL as create_short_url stores it for a request without Claims
OwnerlessUrl == [StoredUrl EXCEPT !.user_id = None]

InitOwnerless == AroundStored /\ urls \in {{StoredUrl}, {OwnerlessUrl}}

SpecOwnerless == InitOwnerless /\ [][NextDelete]_vars

\* C29: a delete_short_url of a caller with Claims on a code whose stored URL
\* has no user_id is answered 403 in its first step and goes no further, and
\* no step removes a URL that has no user_id or changes the qr_codes or the
\* visitors rows of its code.
C29_OwnerlessNeverDeleted ==
    [][ /\ \A u \in urls : u.user_id = None =>
             /\ \E v \in urls' : v.id = u.id
             /\ ByCode(qr_codes', u.short_code) = ByCode(qr_codes, u.short_code)
             /\ ByCode(visitors, u.short_code) \subseteq ByCode(visitors', u.short_code)
        /\ ( /\ Responds /\ resp'.h = "delete_short_url"
             /\ resp'.req.pc = "delete_one" /\ reqs' = reqs
             /\ resp'.req.claims # None
             /\ \E u \in ByCode(urls, resp'.req.code) : u.user_id = None ) =>
             resp'.status = 403 /\ UNCHANGED store
        /\ \A r \in InFlight' :
             (r.h = "delete_short_url" /\ Enters(r)) =>
               \A u \in ByCode(urls, r.code) : u.user_id # None
      ]_vars

\* the delete of the URL without user_id was refused, and the URL, its QR row
\* and its visitor row are stored
C29_Witness ==
    /\ resp.h = "delete_short_url" /\ resp.status = 403
    /\ resp.req.claims # None
    /\ \E u \in ByCode(urls, resp.req.code) : u.user_id = None
    /\ ByCode(qr_codes, resp.req.code) # {}
    /\ ByCode(visitors, resp.req.code) # {}

\* C30: a redirect_to_url answered 404 or 410 puts no background task in
\* flight and changes no collection: the clicks of every URL and the visitors
\* collection stay as they were.
C30_NoTaskWithoutRedirect ==
    [][ (Responds /\ resp'.h = "redirect_to_url" /\ resp'.status \in {404, 410})
        => /\ reqs' = reqs
           /\ UNCHANGED store
           /\ (resp'.status = 404) <=> (ByCode(urls, resp'.req.code) = {}) ]_vars

\* the redirect of a stored URL that has expired was answered 410
C30_Witness ==
    /\ resp.h = "redirect_to_url" /\ resp.status = 410
    /\ \E u \in ByCode(urls, resp.req.code) : is_expired(u) /\ u.clicks = 0

=============================================================================
